---------------------------- MODULE Spec2Model ----------------------------
(***************************************************************************)
(* Model of the segmented write-ahead log (package wal).                   *)
(*                                                                         *)
(* The state is the Log struct (segments, firstOffset, lastOffset, sfile,  *)
(* scache, closed, corrupt) together with the directory of the log on the  *)
(* filesystem.  Every public method of Log is one action; the private      *)
(* helpers (cycle, loadSegment, loadSegmentEntries, ...) are operators on  *)
(* a record of the whole state, so that a method is computed statement by  *)
(* statement as the Go code computes it.                                   *)
(*                                                                         *)
(* Bytes are naturals below 256, a file is a sequence of bytes, a file     *)
(* name is a record [off, suf]: the 20-digit offset and the suffix.        *)
(*                                                                         *)
(* The last two sections model the goroutines of the client's              *)
(* notifications multiplexer (nm, snm) and of the coordinator's node       *)
(* controller (nc): one action per step between two blocking points.       *)
(***************************************************************************)
EXTENDS Integers, Sequences, FiniteSets, TLC

\* ------------------------------------------------------------------ bounds
\* highest offset a caller writes
MaxOffset == 4
\* longest payload an append action writes
MaxPayload == 1
\* most entries in one batch
MaxBatch == 2
\* Options.SegmentSize the log is opened with (bytes)
SegmentSize == 8
\* Options.SegmentCacheSize (DefaultOptions)
SegmentCacheSize == 2
\* binary.MaxVarintLen64
MaxVarintLen64 == 10
\* goroutines that read the log at the same time
MaxThreads == 2
\* shards the client has a notifications manager for
MaxShards == 2
\* capacity of notifications.multiplexCh (100 in newNotifications)
MultiplexSize == 2
\* most notifications in one batch of a shard
MaxNotifications == 2
\* most health-check ping goroutines that outlive their healthCheck call
MaxStale == 2

\* --------------------------------------------------------------- constants
startSuffix == ".START"
endSuffix == ".END"
truncateSuffix == ".TRUNCATE"
tempFileName == [off |-> -1, suf |-> "TEMP"]
NoSuffix == ""

ErrNone == "nil"
ErrCorrupt == "log corrupt"
ErrClosed == "log closed"
ErrNotFound == "not found"
ErrOutOfRange == "out of range"
ErrInvalidSeek == "invalid seek"
\* an error of the filesystem (file does not exist, file already closed)
ErrIO == "io error"
\* a Go run-time panic that no deferred function recovers
Panic == "panic"

\* ----------------------------------------------------------------- helpers
Min(a, b) == IF a < b THEN a ELSE b

Last(s) == s[Len(s)]

\* s[lo:hi] of Go, 0-based, hi exclusive
Slice(s, lo, hi) == SubSeq(s, lo + 1, hi)

\* s[lo:] of Go
SliceFrom(s, lo) == SubSeq(s, lo + 1, Len(s))

RECURSIVE Pow2(_)
Pow2(n) == IF n = 0 THEN 1 ELSE 2 * Pow2(n - 1)

\* ------------------------------------------------------------- entry codec
\* binary.PutUvarint: 7 bits per byte, low group first, 0x80 marks "more"
RECURSIVE PutUvarint(_)
PutUvarint(x) ==
    IF x < 128 THEN <<x>> ELSE <<128 + (x % 128)>> \o PutUvarint(x \div 128)

appendUvarint(dst, x) == dst \o PutUvarint(x)

\* appendEntry: data_size + data; the position is [pos, end)
appendEntry(dst, data) ==
    LET out == appendUvarint(dst, Len(data)) \o data
    IN  [out |-> out, epos |-> [pos |-> Len(dst), end |-> Len(out)]]

\* binary.Uvarint: [x, n]; n = 0 when the buffer ends inside the number,
\* n < 0 when the number overflows 64 bits
RECURSIVE UvarintFrom(_, _, _, _)
UvarintFrom(buf, i, x, s) ==
    IF i > Len(buf) THEN [x |-> 0, n |-> 0]
    ELSE IF i - 1 = MaxVarintLen64 THEN [x |-> 0, n |-> -i]
    ELSE IF buf[i] < 128
         THEN IF i = MaxVarintLen64 /\ buf[i] > 1
              THEN [x |-> 0, n |-> -i]
              ELSE [x |-> x + buf[i] * Pow2(s), n |-> i]
         ELSE UvarintFrom(buf, i + 1, x + (buf[i] % 128) * Pow2(s), s + 7)

Uvarint(buf) == UvarintFrom(buf, 1, 0, 0)

\* loadNextEntry: the length of the framed entry at the head of data
loadNextEntry(data) ==
    LET u == Uvarint(data)
    IN  IF u.n <= 0 THEN [n |-> 0, err |-> ErrCorrupt]
        ELSE IF Len(data) - u.n < u.x THEN [n |-> 0, err |-> ErrCorrupt]
        ELSE [n |-> u.n + u.x, err |-> ErrNone]

\* the loop of loadSegmentEntries over the bytes of the file
RECURSIVE decodeEntries(_, _, _)
decodeEntries(data, pos, epos) ==
    IF Len(data) = 0 THEN [epos |-> epos, err |-> ErrNone]
    ELSE LET e == loadNextEntry(data)
         IN  IF e.err # ErrNone THEN [epos |-> epos, err |-> e.err]
             ELSE decodeEntries(SliceFrom(data, e.n), pos + e.n,
                                Append(epos, [pos |-> pos, end |-> pos + e.n]))

\* capacity of a []bpos grown from nil by append, one element at a time:
\* the run time doubles a small slice, and the elements between len and cap
\* are zero
RECURSIVE CapFrom(_, _)
CapFrom(n, c) == IF c >= n THEN c ELSE CapFrom(n, 2 * c)

eposCap(n) == IF n = 0 THEN 0 ELSE CapFrom(n, 1)

zeroBpos == [pos |-> 0, end |-> 0]

\* ------------------------------------------------------------- file system
\* segmentName with an optional suffix
segmentName(offset) == [off |-> offset, suf |-> NoSuffix]

markerName(offset, suffix) == [off |-> offset, suf |-> suffix]

fileExists(d, name) == name \in DOMAIN d

\* O_CREATE|O_TRUNC, and the bytes written to a file
putFile(d, name, content) ==
    [n \in (DOMAIN d) \cup {name} |-> IF n = name THEN content ELSE d[n]]

removeFile(d, name) == [n \in (DOMAIN d) \ {name} |-> d[n]]

\* rename replaces a file that has the new name
renameFile(d, from, to) ==
    [n \in ((DOMAIN d) \ {from}) \cup {to} |-> IF n = to THEN d[from] ELSE d[n]]

\* File.Write at the position of the handle
writeAt(content, pos, bytes) ==
    SubSeq(content, 1, Min(pos, Len(content))) \o bytes
        \o SubSeq(content, pos + Len(bytes) + 1, Len(content))

\* rank of a name in the lexical order of afero.ReadDir
suffixRank(suf) ==
    CASE suf = NoSuffix -> 0
      [] suf = endSuffix -> 1
      [] suf = startSuffix -> 2
      [] suf = truncateSuffix -> 3
      [] OTHER -> 4

nameKey(name) == name.off * 8 + suffixRank(name.suf)

\* the names load keeps: 20 digits, alone or with one of the three suffixes
isSegmentFile(name) ==
    /\ name.off >= 0
    /\ name.suf \in {NoSuffix, startSuffix, endSuffix, truncateSuffix}

RECURSIVE sortNames(_)
sortNames(S) ==
    IF S = {} THEN <<>>
    ELSE LET m == CHOOSE x \in S : \A y \in S : nameKey(x) <= nameKey(y)
         IN  <<m>> \o sortNames(S \ {m})

\* afero.ReadDir filtered as load filters it
readDir(d) == sortNames({n \in DOMAIN d : isSegmentFile(n)})

\* ------------------------------------------------------------------- state
VARIABLES
    disk,         \* the directory: file name -> bytes
    segments,     \* Log.segments: [id, offset, path, ebuf, epos]
    firstOffset,  \* Log.firstOffset
    lastOffset,   \* Log.lastOffset
    sfile,        \* Log.sfile: [path, closed, pos]
    scache,       \* Log.scache: [key, id], most recently used first
    closed,       \* Log.closed
    corrupt,      \* Log.corrupt
    inMemory,     \* Options.InMemory: the filesystem is afero.MemMapFs
    alive,        \* a handle exists (FALSE after a crash or a failed open)
    lastOp,       \* the last call that changed something and what it returned
    written,      \* offset -> payload of the entries appended and not truncated
    crashes,      \* how many times the process was killed or a call failed
    reading,      \* thread -> the Read it is inside of: [pc, offset, seg, want, got]
    nm,           \* the notifications struct, its closer goroutine and its callers
    snm,          \* shard -> shardNotificationsManager and its goroutine
    nc            \* the nodeController and its health-check goroutines

\* the Log, its directory and the caller's record of them
logVars == <<disk, segments, firstOffset, lastOffset, sfile, scache, closed,
             corrupt, inMemory, alive, lastOp, written, crashes>>

\* the client's notifications and the coordinator's node controller
serviceVars == <<nm, snm, nc>>

vars == <<logVars, reading, serviceVars>>

\* the Log struct and its directory as one value, for the helpers below.
\* fuse, mode and halted place one event inside a call: with fuse = k the
\* k+1st call of the filesystem does not happen; in mode "crash" the process
\* stops there (halted: nothing after it runs), in mode "fail" that call
\* returns an error.  fuse = -1: no event.  committed records that a
\* truncation passed its commit rename.  synced is what was last fsynced of
\* each file: at the start of a call, all of it.
World ==
    [disk |-> disk, segments |-> segments, firstOffset |-> firstOffset,
     lastOffset |-> lastOffset, sfile |-> sfile, scache |-> scache,
     closed |-> closed, corrupt |-> corrupt, inMemory |-> inMemory,
     fuse |-> -1, mode |-> "none", halted |-> FALSE, committed |-> FALSE,
     synced |-> disk]

Ok(w) == [w |-> w, err |-> ErrNone]

Fail(w, e) == [w |-> w, err |-> e]

\* the process stopped inside the call
Crashed == "crashed"

\* the gate every call of the filesystem passes
enter(w) ==
    IF w.halted THEN Fail(w, Crashed)
    ELSE IF w.fuse = 0
    THEN IF w.mode = "crash"
         THEN Fail([w EXCEPT !.halted = TRUE, !.fuse = -1], Crashed)
         ELSE Fail([w EXCEPT !.fuse = -1], ErrIO)
    ELSE Ok(IF w.fuse > 0 THEN [w EXCEPT !.fuse = @ - 1] ELSE w)

\* ---------------------------------------------------------------- segments
\* &segment{offset, path}: the buffers start nil
newSegment(id, offset, path) ==
    [id |-> id, offset |-> offset, path |-> path, ebuf |-> <<>>, epos |-> <<>>]

\* identity of a newly allocated segment: one that no list or cache entry holds
freshId(w) ==
    LET used == {w.segments[i].id : i \in 1..Len(w.segments)}
                    \cup {w.scache[i].id : i \in 1..Len(w.scache)}
    IN  CHOOSE i \in 1..(Cardinality(used) + 1) : i \notin used

\* s.ebuf = nil; s.epos = nil for the segment objects in ids
dropBuffers(segs, ids) ==
    [i \in 1..Len(segs) |->
        IF segs[i].id \in ids
        THEN [segs[i] EXCEPT !.ebuf = <<>>, !.epos = <<>>]
        ELSE segs[i]]

\* position in the list of the segment object id, 0 when the list lost it
segmentOfId(segs, id) ==
    IF \E i \in 1..Len(segs) : segs[i].id = id
    THEN CHOOSE i \in 1..Len(segs) : segs[i].id = id
    ELSE 0

tail(w) == w.segments[Len(w.segments)]

\* ------------------------------------------------------------------- cache
\* tinylru SetEvicted: the key moves to the front; a new key that overflows
\* the cache evicts the least recently used entry
setEvicted(cache, key, id) ==
    LET present == \E j \in 1..Len(cache) : cache[j].key = key
        others == SelectSeq(cache, LAMBDA e : e.key # key)
        pushed == <<[key |-> key, id |-> id]>> \o others
        evicted == ~present /\ Len(pushed) > SegmentCacheSize
    IN  [cache |-> IF evicted THEN SubSeq(pushed, 1, Len(pushed) - 1) ELSE pushed,
         evicted |-> evicted,
         id |-> IF evicted THEN Last(pushed).id ELSE 0]

\* pushCache that leaves the buffers of the evicted segment in place
pushCacheKeepBuffers(w, segIdx) ==
    [w EXCEPT !.scache = setEvicted(w.scache, segIdx, w.segments[segIdx].id).cache]

\* pushCache: keys are indexes of l.segments (1-based here)
pushCache(w, segIdx) ==
    LET r == setEvicted(w.scache, segIdx, w.segments[segIdx].id)
    IN  IF r.evicted
        THEN [w EXCEPT !.scache = r.cache,
                       !.segments = dropBuffers(w.segments, {r.id})]
        ELSE [w EXCEPT !.scache = r.cache]

\* clearCache: every cached segment loses its buffers, the cache is replaced
clearCache(w) ==
    [w EXCEPT !.segments =
                  dropBuffers(w.segments,
                              {w.scache[i].id : i \in 1..Len(w.scache)}),
              !.scache = <<>>]

\* ------------------------------------------------------------ file handles
\* Every helper of this section and the next ones takes the result r of the
\* step before it and returns it untouched when that step failed
\* (if err != nil { return err }).
closedHandle == [path |-> tempFileName, closed |-> TRUE, pos |-> 0]

\* the nil afero.File that OpenFile returns with an error: a method call on it
\* panics (nil pointer dereference)
nilHandle == [path |-> tempFileName, closed |-> TRUE, pos |-> -1]

\* fs.OpenFile(name, O_CREATE|O_RDWR|O_TRUNC): [w, err, f]
newFile(r, name) ==
    IF r.err # ErrNone THEN [w |-> r.w, err |-> r.err, f |-> closedHandle]
    ELSE LET g == enter(r.w)
         IN  IF g.err # ErrNone THEN [w |-> g.w, err |-> g.err, f |-> nilHandle]
             ELSE [w |-> [g.w EXCEPT !.disk = putFile(g.w.disk, name, <<>>),
                                     !.synced = IF fileExists(g.w.synced, name) THEN @
                                                ELSE putFile(@, name, <<>>)],
                   err |-> ErrNone,
                   f |-> [path |-> name, closed |-> FALSE, pos |-> 0]]

\* fs.OpenFile(name, O_WRONLY): no O_CREATE, the file must exist
openFile(r, name) ==
    IF r.err # ErrNone THEN [w |-> r.w, err |-> r.err, f |-> closedHandle]
    ELSE LET g == enter(r.w)
         IN  IF g.err # ErrNone THEN [w |-> g.w, err |-> g.err, f |-> nilHandle]
             ELSE IF fileExists(g.w.disk, name)
             THEN [w |-> g.w, err |-> ErrNone,
                   f |-> [path |-> name, closed |-> FALSE, pos |-> 0]]
             ELSE [w |-> g.w, err |-> ErrIO, f |-> nilHandle]

\* f.Write(bytes) on the handle r.f: [w, err, f]
handleWrite(r, bytes) ==
    IF r.err # ErrNone THEN r
    ELSE IF r.f = nilHandle THEN [w |-> r.w, err |-> Panic, f |-> r.f]
    ELSE LET g == enter(r.w)
         IN  IF g.err # ErrNone THEN [w |-> g.w, err |-> g.err, f |-> r.f]
             ELSE IF r.f.closed THEN [w |-> g.w, err |-> ErrIO, f |-> r.f]
             ELSE IF ~fileExists(g.w.disk, r.f.path)
             THEN [w |-> g.w, err |-> ErrNone,
                   f |-> [r.f EXCEPT !.pos = @ + Len(bytes)]]
             ELSE [w |-> [g.w EXCEPT !.disk =
                              putFile(g.w.disk, r.f.path,
                                      writeAt(g.w.disk[r.f.path], r.f.pos, bytes))],
                   err |-> ErrNone,
                   f |-> [r.f EXCEPT !.pos = @ + Len(bytes)]]

\* fsync of the file name: what it holds is what a crash leaves of it
fsynced(w, name) ==
    IF fileExists(w.disk, name)
    THEN [w EXCEPT !.synced = putFile(@, name, w.disk[name])]
    ELSE w

\* f.Sync() and f.Close() on the handle r.f
handleSync(r) ==
    IF r.err # ErrNone THEN r
    ELSE IF r.f = nilHandle THEN [w |-> r.w, err |-> Panic, f |-> r.f]
    ELSE LET g == enter(r.w)
         IN  IF g.err # ErrNone THEN [w |-> g.w, err |-> g.err, f |-> r.f]
             ELSE IF r.f.closed THEN [w |-> g.w, err |-> ErrIO, f |-> r.f]
             ELSE [w |-> fsynced(g.w, r.f.path), err |-> ErrNone, f |-> r.f]

handleClose(r) ==
    IF r.err # ErrNone THEN r
    ELSE IF r.f = nilHandle THEN [w |-> r.w, err |-> Panic, f |-> r.f]
    ELSE LET g == enter(r.w)
         IN  IF g.err # ErrNone THEN [w |-> g.w, err |-> g.err, f |-> r.f]
             ELSE IF r.f.closed THEN [w |-> g.w, err |-> ErrIO, f |-> r.f]
             ELSE [w |-> g.w, err |-> ErrNone, f |-> [r.f EXCEPT !.closed = TRUE]]

\* the handle l.sfile as the subject of the next call
onSfile(r) == [w |-> r.w, err |-> r.err, f |-> r.w.sfile]

\* l.sfile = f
toSfile(h) == [w |-> [h.w EXCEPT !.sfile = h.f], err |-> h.err]

\* l.sfile.Write
fileWrite(r, bytes) ==
    IF r.err # ErrNone THEN r ELSE toSfile(handleWrite(onSfile(r), bytes))

\* syncNoMutex: fsync of the tail handle
syncNoMutex(r) ==
    IF r.err # ErrNone THEN r ELSE toSfile(handleSync(onSfile(r)))

\* l.sfile.Close
fileClose(r) ==
    IF r.err # ErrNone THEN r ELSE toSfile(handleClose(onSfile(r)))

\* l.sfile, err = l.newFile(name)
newSfile(r, name) ==
    IF r.err # ErrNone THEN r ELSE toSfile(newFile(r, name))

\* l.sfile, err = l.openFile(name)
openSfile(r, name) ==
    IF r.err # ErrNone THEN r ELSE toSfile(openFile(r, name))

\* l.sfile.Seek(0, 2): the handle moves to the end of its file; [w, err, n]
seekEnd(r) ==
    IF r.err # ErrNone THEN [w |-> r.w, err |-> r.err, n |-> 0]
    ELSE IF r.w.sfile = nilHandle THEN [w |-> r.w, err |-> Panic, n |-> 0]
    ELSE LET g == enter(r.w)
             n == IF fileExists(g.w.disk, g.w.sfile.path)
                  THEN Len(g.w.disk[g.w.sfile.path]) ELSE 0
         IN  IF g.err # ErrNone THEN [w |-> g.w, err |-> g.err, n |-> 0]
             ELSE IF g.w.sfile.closed THEN [w |-> g.w, err |-> ErrIO, n |-> 0]
             ELSE [w |-> [g.w EXCEPT !.sfile.pos = n], err |-> ErrNone, n |-> n]

\* if n != int64(len(ebuf)) { err = errors.New("invalid seek") }
invalidSeek(r, len) ==
    IF r.err = ErrNone /\ r.n # len THEN Fail(r.w, ErrInvalidSeek) ELSE r

\* fs.Remove
fsRemove(r, name) ==
    IF r.err # ErrNone THEN r
    ELSE LET g == enter(r.w)
         IN  IF g.err # ErrNone THEN g
             ELSE IF ~fileExists(g.w.disk, name) THEN Fail(g.w, ErrIO)
             ELSE Ok([g.w EXCEPT !.disk = removeFile(g.w.disk, name),
                                 !.synced = removeFile(@, name)])

\* fs.Rename
fsRename(r, from, to) ==
    IF r.err # ErrNone THEN r
    ELSE LET g == enter(r.w)
         IN  IF g.err # ErrNone THEN g
             ELSE IF ~fileExists(g.w.disk, from) THEN Fail(g.w, ErrIO)
             ELSE Ok([g.w EXCEPT !.disk = renameFile(g.w.disk, from, to),
                                 !.synced = renameFile(@, from, to)])

\* afero.ReadFile: [w, err, data]
readFile(r, name) ==
    IF r.err # ErrNone THEN [w |-> r.w, err |-> r.err, data |-> <<>>]
    ELSE LET g == enter(r.w)
         IN  IF g.err # ErrNone THEN [w |-> g.w, err |-> g.err, data |-> <<>>]
             ELSE IF ~fileExists(g.w.disk, name)
             THEN [w |-> g.w, err |-> ErrIO, data |-> <<>>]
             ELSE [w |-> g.w, err |-> ErrNone, data |-> g.w.disk[name]]

\* fs.Remove of each path in turn, returning at the first that fails
RECURSIVE removeAll(_, _)
removeAll(r, paths) ==
    IF Len(paths) = 0 \/ r.err # ErrNone THEN r
    ELSE removeAll(fsRemove(r, paths[1]), Tail(paths))

pathsOf(segs) == [i \in 1..Len(segs) |-> segs[i].path]

\* ------------------------------------------------------ loading a segment
\* what loadSegmentEntries makes of the bytes it read
decoded(f, i) ==
    IF f.err # ErrNone THEN Fail(f.w, f.err)
    ELSE LET d == decodeEntries(f.data, 0, <<>>)
         IN  IF d.err # ErrNone THEN Fail(f.w, d.err)
             ELSE Ok([f.w EXCEPT !.segments[i].ebuf = f.data,
                                 !.segments[i].epos = d.epos])

\* loadSegmentEntries on l.segments[i]
loadSegmentEntries(r, i) ==
    IF r.err # ErrNone THEN r ELSE decoded(readFile(r, r.w.segments[i].path), i)

\* findSegment: bsearch over Go indexes i, j; the result is 1-based here,
\* 0 where Go returns -1
RECURSIVE bsearch(_, _, _, _)
bsearch(segs, index, i, j) ==
    IF i < j
    THEN LET h == i + (j - i) \div 2
         IN  IF index >= segs[h + 1].offset
             THEN bsearch(segs, index, h + 1, j)
             ELSE bsearch(segs, index, i, h)
    ELSE i

findSegment(w, index) == bsearch(w.segments, index, 0, Len(w.segments))

\* the Range callback of loadSegment returns false: only the most recently
\* used cache entry is looked at
cachedSegment(w, index) ==
    IF Len(w.scache) = 0 THEN 0
    ELSE LET k == segmentOfId(w.segments, w.scache[1].id)
         IN  IF /\ k # 0
                /\ index >= w.segments[k].offset
                /\ index < w.segments[k].offset + Len(w.segments[k].epos)
             THEN k ELSE 0

\* the end of loadSegment: the segment found is pushed to the cache
pushed(r, idx) ==
    IF r.err # ErrNone THEN [w |-> r.w, err |-> r.err, seg |-> 0]
    ELSE [w |-> pushCache(r.w, idx), err |-> ErrNone, seg |-> idx]

\* loadSegment: [w, err, seg], seg the position in l.segments of the result
loadSegment(w, index) ==
    LET n == Len(w.segments)
        rseg == cachedSegment(w, index)
        idx == findSegment(w, index)
    IN  IF index >= w.segments[n].offset THEN [w |-> w, err |-> ErrNone, seg |-> n]
        ELSE IF rseg # 0 THEN [w |-> w, err |-> ErrNone, seg |-> rseg]
        ELSE IF idx = 0 THEN [w |-> w, err |-> Panic, seg |-> 0]
        ELSE pushed(IF Len(w.segments[idx].epos) = 0
                    THEN loadSegmentEntries(Ok(w), idx)
                    ELSE Ok(w), idx)

\* -------------------------------------------------------------------- Read
\* Read after loadSegment: [w, err, data]
readEntry(r, offset) ==
    IF r.err # ErrNone THEN [w |-> r.w, err |-> r.err, data |-> <<>>]
    ELSE LET s == r.w.segments[r.seg]
             k == offset - s.offset
         IN  IF k < 0 \/ k >= Len(s.epos)
             THEN [w |-> r.w, err |-> Panic, data |-> <<>>]
             ELSE LET edata == Slice(s.ebuf, s.epos[k + 1].pos, s.epos[k + 1].end)
                      u == Uvarint(edata)
                  IN  IF u.n <= 0 \/ Len(edata) - u.n < u.x
                      THEN [w |-> r.w, err |-> ErrCorrupt, data |-> <<>>]
                      ELSE [w |-> r.w, err |-> ErrNone,
                            data |-> Slice(edata, u.n, u.n + u.x)]

\* Log.Read that checks the range against last_offset only
ReadNoFloor(w, offset) ==
    IF w.corrupt THEN [w |-> w, err |-> ErrCorrupt, data |-> <<>>]
    ELSE IF w.closed THEN [w |-> w, err |-> ErrClosed, data |-> <<>>]
    ELSE IF offset > w.lastOffset
    THEN [w |-> w, err |-> ErrNotFound, data |-> <<>>]
    ELSE readEntry(loadSegment(w, offset), offset)

\* Log.Read: [w, err, data]
Read(w, offset) ==
    IF w.corrupt THEN [w |-> w, err |-> ErrCorrupt, data |-> <<>>]
    ELSE IF w.closed THEN [w |-> w, err |-> ErrClosed, data |-> <<>>]
    ELSE IF offset < w.firstOffset \/ offset > w.lastOffset
    THEN [w |-> w, err |-> ErrNotFound, data |-> <<>>]
    ELSE readEntry(loadSegment(w, offset), offset)

\* retire that keeps the file of the initial empty segment
retireKeepFile(r, nextOffset) ==
    IF r.err # ErrNone THEN r
    ELSE LET n == Len(r.w.segments)
             lastSegment == r.w.segments[n]
         IN  IF lastSegment.offset = 0 /\ Len(lastSegment.ebuf) = 0
             THEN Ok([r.w EXCEPT !.firstOffset = nextOffset])
             ELSE Ok(pushCache(r.w, n))

\* ------------------------------------------------------------------ append
\* cycle after the tail is synced and closed: the tail is cached, or, when it
\* is the initial empty segment, its file is deleted (the segment stays in
\* l.segments)
retire(r, nextOffset) ==
    IF r.err # ErrNone THEN r
    ELSE LET n == Len(r.w.segments)
             lastSegment == r.w.segments[n]
         IN  IF lastSegment.offset = 0 /\ Len(lastSegment.ebuf) = 0
             THEN fsRemove(Ok([r.w EXCEPT !.firstOffset = nextOffset]),
                           lastSegment.path)
             ELSE Ok(pushCache(r.w, n))

\* l.segments = append(l.segments, s)
appendSegment(r, offset) ==
    IF r.err # ErrNone THEN r
    ELSE Ok([r.w EXCEPT !.segments =
                 Append(@, newSegment(freshId(r.w), offset, segmentName(offset)))])

\* cycle that names the new tail by the last offset written, not the next one
cycleAtLast(r, nextOffset) ==
    appendSegment(
        newSfile(retire(fileClose(syncNoMutex(r)), nextOffset - 1),
                 segmentName(nextOffset - 1)),
        nextOffset - 1)

\* cycle: close the tail, cache it (or delete the initial empty segment),
\* open a new tail at nextOffset
cycle(r, nextOffset) ==
    appendSegment(
        newSfile(retire(fileClose(syncNoMutex(r)), nextOffset),
                 segmentName(nextOffset)),
        nextOffset)

\* Batch.Write
batchWrite(b, offset, data) ==
    [entries |-> Append(b.entries, [offset |-> offset, size |-> Len(data)]),
     datas |-> b.datas \o data]

emptyBatch == [entries |-> <<>>, datas |-> <<>>]

\* l.lastOffset = offset
setLastOffset(r, offset) ==
    IF r.err # ErrNone THEN r ELSE Ok([r.w EXCEPT !.lastOffset = offset])

\* the loop of writeBatch over b.entries: [w, err, mark]
RECURSIVE writeEntries(_, _, _, _, _)
writeEntries(r, entries, datas, i, mark) ==
    IF r.err # ErrNone \/ i > Len(entries)
    THEN [w |-> r.w, err |-> r.err, mark |-> mark]
    ELSE LET n == Len(r.w.segments)
             s == r.w.segments[n]
             a == appendEntry(s.ebuf, Slice(datas, 0, entries[i].size))
             w1 == [r.w EXCEPT !.segments[n].ebuf = a.out,
                               !.segments[n].epos = Append(s.epos, a.epos)]
             rest == SliceFrom(datas, entries[i].size)
         IN  IF Len(a.out) >= SegmentSize
             THEN writeEntries(
                      cycle(setLastOffset(fileWrite(Ok(w1), SliceFrom(a.out, mark)),
                                          entries[i].offset),
                            entries[i].offset + 1),
                      entries, rest, i + 1, 0)
             ELSE writeEntries(Ok(w1), entries, rest, i + 1, mark)

\* flushTail that takes the offset of the first entry of the batch
flushTailFirst(r, b) ==
    IF r.err # ErrNone THEN Fail(r.w, r.err)
    ELSE IF Len(tail(r.w).ebuf) - r.mark > 0
    THEN setLastOffset(fileWrite(r, SliceFrom(tail(r.w).ebuf, r.mark)),
                       b.entries[1].offset)
    ELSE Ok(r.w)

\* the write of the bytes past the mark that ends writeBatch
flushTail(r, b) ==
    IF r.err # ErrNone THEN Fail(r.w, r.err)
    ELSE IF Len(tail(r.w).ebuf) - r.mark > 0
    THEN setLastOffset(fileWrite(r, SliceFrom(tail(r.w).ebuf, r.mark)),
                       Last(b.entries).offset)
    ELSE Ok(r.w)

\* mark := len(s.ebuf) and the loop
writeFrom(r, b) ==
    writeEntries(r, b.entries, b.datas, 1, Len(tail(r.w).ebuf))

\* writeBatch (NoSync is false: the tail is fsynced before the return)
writeBatch(w, b) ==
    syncNoMutex(flushTail(
        writeFrom(IF \/ b.entries[1].offset > w.lastOffset + 1
                     \/ Len(tail(w).ebuf) > SegmentSize
                  THEN cycle(Ok(w), b.entries[1].offset)
                  ELSE Ok(w), b), b))

\* Log.Write
Write(w, offset, data) ==
    IF w.corrupt THEN Fail(w, ErrCorrupt)
    ELSE IF w.closed THEN Fail(w, ErrClosed)
    ELSE writeBatch(w, batchWrite(emptyBatch, offset, data))

\* Log.WriteBatch that returns for an empty batch before it looks at closed
WriteBatchEmptyFirst(w, b) ==
    IF w.corrupt THEN Fail(w, ErrCorrupt)
    ELSE IF Len(b.entries) = 0 THEN Ok(w)
    ELSE IF w.closed THEN Fail(w, ErrClosed)
    ELSE writeBatch(w, b)

\* Log.WriteBatch
WriteBatch(w, b) ==
    IF w.corrupt THEN Fail(w, ErrCorrupt)
    ELSE IF w.closed THEN Fail(w, ErrClosed)
    ELSE IF Len(b.entries) = 0 THEN Ok(w)
    ELSE writeBatch(w, b)

\* ------------------------------------------------------------ open, close
\* the Log that OpenWithShard hands to load
freshLog(w) ==
    [w EXCEPT !.segments = <<>>, !.firstOffset = 0, !.lastOffset = 0,
              !.sfile = closedHandle, !.scache = <<>>,
              !.closed = FALSE, !.corrupt = FALSE]

\* createInitialSegment that takes the offset itself for the last offset
createInitialSegmentLastIsOffset(w, offset) ==
    newSfile(Ok([w EXCEPT !.segments =
                     Append(@, newSegment(freshId(w), offset, segmentName(offset))),
                          !.firstOffset = offset,
                          !.lastOffset = offset]),
             segmentName(offset))

createInitialSegment(w, offset) ==
    newSfile(Ok([w EXCEPT !.segments =
                     Append(@, newSegment(freshId(w), offset, segmentName(offset))),
                          !.firstOffset = offset,
                          !.lastOffset = offset - 1]),
             segmentName(offset))

\* orgPath[:len(orgPath)-len(suffix)]
dropSuffix(name) == [off |-> name.off, suf |-> NoSuffix]

Reverse(s) == [i \in 1..Len(s) |-> s[Len(s) + 1 - i]]

SetMax(S) == CHOOSE x \in S : \A y \in S : y <= x

SetMin(S) == CHOOSE x \in S : \A y \in S : x <= y

\* l.segments = segs, the marker segment at position i under its final name
cleaned(r, segs, i) ==
    IF r.err # ErrNone THEN r
    ELSE Ok([r.w EXCEPT !.segments = [segs EXCEPT ![i].path = dropSuffix(@)]])

\* load, START present: delete the files leading up to START, rename it
loadStart(r, startIdx) ==
    IF r.err # ErrNone \/ startIdx = 0 THEN r
    ELSE LET segs == SubSeq(r.w.segments, startIdx, Len(r.w.segments))
         IN  cleaned(fsRename(removeAll(r, pathsOf(SubSeq(r.w.segments, 1,
                                                          startIdx - 1))),
                              segs[1].path, dropSuffix(segs[1].path)),
                     segs, 1)

\* load, END present: delete the files following END, forget the segment
\* before END when it has the same offset, rename END
loadEnd(r, endIdx) ==
    IF r.err # ErrNone \/ endIdx = 0 THEN r
    ELSE LET n == Len(r.w.segments)
             kept == SubSeq(r.w.segments, 1, endIdx)
             segs == IF /\ Len(kept) > 1
                        /\ kept[Len(kept) - 1].offset = kept[Len(kept)].offset
                     THEN Append(SubSeq(kept, 1, Len(kept) - 2), kept[Len(kept)])
                     ELSE kept
         IN  cleaned(fsRename(removeAll(r, Reverse(pathsOf(SubSeq(r.w.segments,
                                                                  endIdx + 1, n)))),
                              Last(segs).path, dropSuffix(Last(segs).path)),
                     segs, Len(segs))

\* loadTruncate that renames the marker and leaves the other files in place
loadTruncateKeepOthers(r, truncateIdx) ==
    IF r.err # ErrNone \/ truncateIdx = 0 THEN r
    ELSE cleaned(fsRename(r, r.w.segments[truncateIdx].path,
                          dropSuffix(r.w.segments[truncateIdx].path)),
                 <<r.w.segments[truncateIdx]>>, 1)

\* load, TRUNCATE present: delete every other file, rename TRUNCATE
loadTruncate(r, truncateIdx) ==
    IF r.err # ErrNone \/ truncateIdx = 0 THEN r
    ELSE LET seg == r.w.segments[truncateIdx]
             others == SelectSeq(r.w.segments, LAMBDA s : s.id # seg.id)
         IN  cleaned(fsRename(removeAll(r, pathsOf(others)),
                              seg.path, dropSuffix(seg.path)),
                     <<seg>>, 1)

\* l.lastOffset = lastSegment.offset + len(lastSegment.epos) - 1
countTail(r) ==
    IF r.err # ErrNone THEN r
    ELSE Ok([r.w EXCEPT !.lastOffset = tail(r.w).offset + Len(tail(r.w).epos) - 1])

\* load, the end: open the last segment for appending and read its entries
loadTail(r) ==
    IF r.err # ErrNone THEN r
    ELSE countTail(loadSegmentEntries(
             seekEnd(openSfile(Ok([r.w EXCEPT !.firstOffset = r.w.segments[1].offset]),
                               tail(r.w).path)),
             Len(r.w.segments)))

\* loadNames that accepts a second TRUNCATE marker and recovers from the first
loadNamesFirstTruncate(w, names) ==
    LET n == Len(names)
        starts == {i \in 1..n : names[i].suf = startSuffix}
        ends == {i \in 1..n : names[i].suf = endSuffix}
        truncs == {i \in 1..n : names[i].suf = truncateSuffix}
        startIdx == IF starts = {} THEN 0 ELSE SetMax(starts)
        endIdx == IF ends = {} THEN 0 ELSE SetMin(ends)
        truncateIdx == IF truncs = {} THEN 0 ELSE SetMin(truncs)
        w1 == [w EXCEPT !.segments =
                   [i \in 1..n |-> newSegment(i, names[i].off, names[i])]]
    IN  IF n = 0 THEN createInitialSegment(w, 0)
        ELSE IF \/ (startIdx # 0 /\ endIdx # 0)
                \/ (startIdx # 0 /\ truncateIdx # 0)
                \/ (truncateIdx # 0 /\ endIdx # 0)
        THEN Fail(w1, ErrCorrupt)
        ELSE loadTail(loadTruncate(loadEnd(loadStart(Ok(w1), startIdx), endIdx),
                                   truncateIdx))

\* load after the directory is listed: names are the files, sorted
loadNames(w, names) ==
    LET n == Len(names)
        starts == {i \in 1..n : names[i].suf = startSuffix}
        ends == {i \in 1..n : names[i].suf = endSuffix}
        truncs == {i \in 1..n : names[i].suf = truncateSuffix}
        startIdx == IF starts = {} THEN 0 ELSE SetMax(starts)
        endIdx == IF ends = {} THEN 0 ELSE SetMin(ends)
        truncateIdx == IF truncs = {} THEN 0 ELSE SetMin(truncs)
        w1 == [w EXCEPT !.segments =
                   [i \in 1..n |-> newSegment(i, names[i].off, names[i])]]
    IN  IF Cardinality(truncs) > 1 THEN Fail(w1, ErrCorrupt)
        ELSE IF n = 0 THEN createInitialSegment(w, 0)
        ELSE IF \/ (startIdx # 0 /\ endIdx # 0)
                \/ (startIdx # 0 /\ truncateIdx # 0)
                \/ (truncateIdx # 0 /\ endIdx # 0)
        THEN Fail(w1, ErrCorrupt)
        ELSE loadTail(loadTruncate(loadEnd(loadStart(Ok(w1), startIdx), endIdx),
                                   truncateIdx))

\* load: list the directory, clean up after a START, END or TRUNCATE marker
load(w) ==
    LET g == enter(w)
    IN  IF g.err # ErrNone THEN g ELSE loadNames(g.w, readDir(g.w.disk))

\* OpenWithShard: MkdirAll, then load on a new Log
open(w) == load(freshLog(w))

\* l.closed = true
markClosed(r, corrupted) ==
    IF r.err # ErrNone THEN r
    ELSE [w |-> [r.w EXCEPT !.closed = TRUE],
          err |-> IF corrupted THEN ErrCorrupt ELSE ErrNone]

\* Log.Close
Close(w) ==
    IF w.closed THEN Fail(w, IF w.corrupt THEN ErrCorrupt ELSE ErrClosed)
    ELSE markClosed(fileClose(syncNoMutex(Ok(w))), w.corrupt)

\* ---------------------------------------------------------------- truncate
\* a panic under the deferred recover of the truncations: the log is marked
\* corrupt and the call returns ErrCorrupt
recovered(r) ==
    IF r.err = Panic THEN Fail([r.w EXCEPT !.corrupt = TRUE], ErrCorrupt) ELSE r

\* the function literal of truncateFront and truncateBack that writes TEMP
writeTemp(w, ebuf) ==
    handleClose(handleSync(handleWrite(newFile(Ok(w), tempFileName), ebuf)))

\* the rename of TEMP to its marker name, whatever writing TEMP returned; a
\* truncation that passed this rename is committed
commitRename(t, marker) ==
    LET rn == fsRename(Ok(t.w), tempFileName, marker)
    IN  IF rn.err # ErrNone THEN rn ELSE Ok([rn.w EXCEPT !.committed = TRUE])

\* s.path = newName; s.offset = offset
moved(r, sIdx, newName, offset) ==
    IF r.err # ErrNone THEN r
    ELSE Ok([r.w EXCEPT !.segments[sIdx].path = newName,
                        !.segments[sIdx].offset = offset])

\* the tail is reopened, sought to its end and read again
reopened(r, newName, len, sIdx) ==
    loadSegmentEntries(invalidSeek(seekEnd(openSfile(r, newName)), len), sIdx)

\* l.segments = l.segments[segIdx:]; l.firstOffset = index; l.clearCache()
frontCut(r, segIdx, index) ==
    IF r.err # ErrNone THEN r
    ELSE Ok(clearCache([r.w EXCEPT !.segments = SubSeq(@, segIdx, Len(@)),
                                   !.firstOffset = index]))

\* truncateFront after the rename of TEMP to START; sIdx is the position of
\* the segment object s that loadSegment returned, len is len(ebuf)
truncateFrontCleanup(r, index, segIdx, sIdx, len) ==
    IF r.err # ErrNone THEN r
    ELSE IF segIdx = Len(r.w.segments)
    THEN frontCut(
             reopened(
                 moved(fsRename(removeAll(fileClose(r),
                                          pathsOf(SubSeq(r.w.segments, 1, segIdx))),
                                markerName(index, startSuffix), segmentName(index)),
                       sIdx, segmentName(index), index),
                 segmentName(index), len, sIdx),
             segIdx, index)
    ELSE frontCut(
             moved(fsRename(removeAll(r, pathsOf(SubSeq(r.w.segments, 1, segIdx))),
                            markerName(index, startSuffix), segmentName(index)),
                   sIdx, segmentName(index), index),
             segIdx, index)

\* truncateFront after loadSegment: s.epos[index-s.offset:] and epos[0] panic
\* when the segment holds no entry for index; the error of writing TEMP is
\* overwritten by the error of the rename
truncateFrontAt(ls, index, segIdx) ==
    IF ls.err # ErrNone THEN Fail(ls.w, ls.err)
    ELSE LET s == ls.w.segments[ls.seg]
             k == index - s.offset
         IN  IF k < 0 \/ k >= Len(s.epos) THEN Fail(ls.w, Panic)
             ELSE recovered(truncateFrontCleanup(
                      commitRename(writeTemp(ls.w, SliceFrom(s.ebuf, s.epos[k + 1].pos)),
                                   markerName(index, startSuffix)),
                      index, segIdx, ls.seg,
                      Len(SliceFrom(s.ebuf, s.epos[k + 1].pos))))

truncateFront(w, index) ==
    IF index < w.firstOffset \/ index > w.lastOffset THEN Fail(w, ErrOutOfRange)
    ELSE IF index = w.firstOffset THEN Ok(w)
    ELSE truncateFrontAt(loadSegment(w, index), index, findSegment(w, index))

\* Log.TruncateFront
TruncateFront(w, index) ==
    IF w.corrupt THEN Fail(w, ErrCorrupt)
    ELSE IF w.closed THEN Fail(w, ErrClosed)
    ELSE truncateFront(w, index)

\* l.segments = {the new segment}; l.lastOffset = newFirstIndex - 1;
\* l.clearCache()
allCut(r, newFirstIndex) ==
    IF r.err # ErrNone THEN r
    ELSE Ok(clearCache([r.w EXCEPT
                !.segments = <<newSegment(freshId(r.w), newFirstIndex,
                                          segmentName(newFirstIndex))>>,
                !.lastOffset = newFirstIndex - 1]))

\* truncateBackAll after the TRUNCATE file was opened and closed
truncateBackAllCleanup(r, newFirstIndex) ==
    IF r.err # ErrNone THEN r
    ELSE loadSegmentEntries(
             allCut(openSfile(fsRename(removeAll(fileClose(r), pathsOf(r.w.segments)),
                                       markerName(newFirstIndex, truncateSuffix),
                                       segmentName(newFirstIndex)),
                              segmentName(newFirstIndex)),
                    newFirstIndex),
             1)

\* f.Close() of truncateBackAll; a truncation that passed it is committed
closedMarker(h) ==
    IF h.err # ErrNone THEN Fail(h.w, h.err)
    ELSE Ok([h.w EXCEPT !.committed = TRUE])

\* truncateBackAll: the TRUNCATE file is opened with openFile (O_WRONLY)
truncateBackAll(w, newFirstIndex) ==
    IF newFirstIndex = w.lastOffset THEN Ok(w)
    ELSE recovered(truncateBackAllCleanup(
             closedMarker(handleClose(openFile(Ok(w),
                              markerName(newFirstIndex, truncateSuffix)))),
             newFirstIndex))

\* s.epos[:n] of Go: legal up to the capacity, the elements past the length
\* are the zero bpos
eposPrefix(epos, n) ==
    [i \in 1..n |-> IF i <= Len(epos) THEN epos[i] ELSE zeroBpos]

\* s.path = newName; l.segments = l.segments[:segIdx+1]; l.lastOffset = index;
\* l.clearCache(); l.loadSegmentEntries(s).  A segment s that the cut drops
\* from the list is read without effect on the list.
backCut(r, index, segIdx, sIdx, newName) ==
    IF r.err # ErrNone THEN Fail(r.w, r.err)
    ELSE IF sIdx > segIdx
    THEN readFile(Ok(clearCache([r.w EXCEPT !.segments = SubSeq(@, 1, segIdx),
                                            !.lastOffset = index])), newName)
    ELSE loadSegmentEntries(
             Ok(clearCache([r.w EXCEPT
                    !.segments = SubSeq([@ EXCEPT ![sIdx].path = newName], 1, segIdx),
                    !.lastOffset = index])),
             sIdx)

\* truncateBack after the rename of TEMP to END
truncateBackCleanup(r, index, segIdx, sIdx, len) ==
    IF r.err # ErrNone THEN r
    ELSE LET s == r.w.segments[sIdx]
         IN  backCut(
                 invalidSeek(
                     seekEnd(openSfile(
                         fsRename(removeAll(fileClose(r),
                                            pathsOf(SubSeq(r.w.segments, segIdx,
                                                           Len(r.w.segments)))),
                                  markerName(s.offset, endSuffix), segmentName(s.offset)),
                         segmentName(s.offset))),
                     len),
                 index, segIdx, sIdx, segmentName(s.offset))

\* truncateBack after loadSegment
truncateBackAt(ls, index, segIdx) ==
    IF ls.err # ErrNone THEN Fail(ls.w, ls.err)
    ELSE LET s == ls.w.segments[ls.seg]
             n == index - s.offset + 1
         IN  IF n <= 0 \/ n > eposCap(Len(s.epos)) THEN Fail(ls.w, Panic)
             ELSE recovered(truncateBackCleanup(
                      commitRename(writeTemp(ls.w, Slice(s.ebuf, 0, eposPrefix(s.epos, n)[n].end)),
                                   markerName(s.offset, endSuffix)),
                      index, segIdx, ls.seg, eposPrefix(s.epos, n)[n].end))

\* truncateBack
truncateBack(w, index) ==
    IF index = w.firstOffset - 1 THEN truncateBackAll(w, w.firstOffset)
    ELSE IF index < w.firstOffset \/ index > w.lastOffset THEN Fail(w, ErrOutOfRange)
    ELSE IF index = w.lastOffset THEN Ok(w)
    ELSE truncateBackAt(loadSegment(w, index), index, findSegment(w, index))

\* Log.TruncateBack
TruncateBack(w, index) ==
    IF w.corrupt THEN Fail(w, ErrCorrupt)
    ELSE IF w.closed THEN Fail(w, ErrClosed)
    ELSE truncateBack(w, index)

\* os.Remove of clear: its error is dropped, and it acts on the files of the
\* operating system, where a MemMapFs log has none
RECURSIVE osRemoveAll(_, _)
osRemoveAll(w, paths) ==
    IF Len(paths) = 0 THEN w
    ELSE LET g == enter(w)
         IN  osRemoveAll(IF \/ g.err # ErrNone
                            \/ w.inMemory
                            \/ ~fileExists(g.w.disk, paths[1])
                         THEN g.w
                         ELSE [g.w EXCEPT !.disk = removeFile(g.w.disk, paths[1]),
                                          !.synced = removeFile(@, paths[1])],
                         Tail(paths))

\* l.segments = make([]*segment, 0)
noSegments(w) == [w EXCEPT !.segments = <<>>]

clear(w) ==
    createInitialSegment(
        noSegments(osRemoveAll(clearCache(w), pathsOf(w.segments))), 0)

\* Log.Clear
Clear(w) ==
    IF w.corrupt THEN Fail(w, ErrCorrupt)
    ELSE IF w.closed THEN Fail(w, ErrClosed)
    ELSE clear(w)

\* Log.ClearCache
ClearCache(w) ==
    IF w.corrupt THEN Fail(w, ErrCorrupt)
    ELSE IF w.closed THEN Fail(w, ErrClosed)
    ELSE Ok(clearCache(w))

\* Log.Sync
Sync(w) ==
    IF w.corrupt THEN Fail(w, ErrCorrupt)
    ELSE IF w.closed THEN Fail(w, ErrClosed)
    ELSE syncNoMutex(Ok(w))

\* Log.FirstIndex and Log.LastIndex: [index, err]
FirstIndex(w) ==
    IF w.corrupt THEN [index |-> 0, err |-> ErrCorrupt]
    ELSE IF w.closed THEN [index |-> 0, err |-> ErrClosed]
    ELSE [index |-> w.firstOffset, err |-> ErrNone]

LastIndex(w) ==
    IF w.corrupt THEN [index |-> 0, err |-> ErrCorrupt]
    ELSE IF w.closed THEN [index |-> 0, err |-> ErrClosed]
    ELSE [index |-> w.lastOffset, err |-> ErrNone]

\* ----------------------------------------------------------------- callers
\* the payload a caller writes at an offset: n bytes that name the offset
PayloadOf(offset, n) == [i \in 1..n |-> offset + 1]

Offsets == 0..MaxOffset

\* the batches a caller may submit: at most MaxBatch entries with strictly
\* increasing offsets above lastOffset, consecutive or not
RECURSIVE batchOf(_, _)
batchOf(offs, size) ==
    IF offs = {} THEN emptyBatch
    ELSE batchWrite(batchOf(offs \ {SetMax(offs)}, size), SetMax(offs),
                    PayloadOf(SetMax(offs), size[SetMax(offs)]))

\* the entries of a batch as offset -> payload
RECURSIVE batchPayloads(_, _, _)
batchPayloads(entries, datas, i) ==
    IF i > Len(entries) THEN <<>>
    ELSE <<Slice(datas, 0, entries[i].size)>>
             \o batchPayloads(entries, SliceFrom(datas, entries[i].size), i + 1)

batchOffsets(b) == {b.entries[i].offset : i \in 1..Len(b.entries)}

restrict(f, S) == [o \in (DOMAIN f) \cap S |-> f[o]]

\* written after a successful append of b
appended(f, b) ==
    [o \in (DOMAIN f) \cup batchOffsets(b) |->
        IF o \in batchOffsets(b)
        THEN batchPayloads(b.entries, b.datas, 1)[
                 CHOOSE i \in 1..Len(b.entries) : b.entries[i].offset = o]
        ELSE f[o]]

\* what a call of Read hands to its caller
Outcome(r) == [err |-> r.err, data |-> r.data]

\* what Log.Read returns at an offset: the payload, or the error
ReadResult(w, o) == Outcome(Read(w, o))

\* ---------------------------------------------------------------- services
\* the shards of shardManager.GetAll()
Shards == 1..MaxShards

\* NodeStatus
Running == "Running"
NotRunning == "NotRunning"

\* the notifications struct when newNotifications reaches initWaitGroup.Wait:
\* multiplexCh holds, for each buffered notification, the shard that sent it;
\* cancelled is nm.ctx, multiplexChanClosed is nm.ctxMultiplexChanClosed;
\* closerGot counts the receives of the closer goroutine from closeCh;
\* new and close are the positions of the callers of newNotifications and
\* of Close; panicked: a goroutine sent on the closed multiplexCh; lateSend:
\* a manager sent on multiplexCh after its close signal
newNotifications ==
    [multiplexCh |-> <<>>, chClosed |-> FALSE, cancelled |-> FALSE,
     closerGot |-> 0, multiplexChanClosed |-> FALSE,
     initWaitGroup |-> [count |-> MaxShards, failed |-> FALSE],
     new |-> "waiting", close |-> "idle",
     panicked |-> FALSE, lateSend |-> FALSE]

\* a shardNotificationsManager whose goroutine enters backoff.RetryNotify;
\* pending counts the notifications of the batch not yet sent, signals the
\* sends on closeCh
newShardNotificationsManager ==
    [pc |-> "retry", initialized |-> FALSE, pending |-> 0, signals |-> 0]

\* the nodeController NewNodeController returns: cancelled is n.ctx, hc the
\* position of healthCheckWithRetries, ctxDone the context of the
\* healthCheck call in progress, ping the ping goroutine of that call, stale
\* the ping goroutines of earlier calls that hold a SERVING response; calls
\* counts NodeBecameUnavailable since the last SERVING response was
\* processed, last is the last of these two events, recovered: the status
\* went from NotRunning to Running
NewNodeController ==
    [status |-> Running, cancelled |-> FALSE, hc |-> "retry", ctxDone |-> FALSE,
     ping |-> "none", stale |-> 0, calls |-> 0, last |-> "none",
     recovered |-> FALSE]

InitServices ==
    /\ nm = newNotifications
    /\ snm = [s \in Shards |-> newShardNotificationsManager]
    /\ nc = NewNodeController

\* ----------------------------------------------------------------- actions
\* the goroutines that call Read
Threads == 1..MaxThreads

\* a thread outside Read: it holds no lock of l.mu
Idle ==
    [pc |-> "idle", offset |-> 0, seg |-> 0,
     want |-> [err |-> ErrNone, data |-> <<>>],
     got |-> [err |-> ErrNone, data |-> <<>>]]

\* lastOp is the last call that changed the Log or its directory: the method,
\* its index argument (truncations; for open, the number of TRUNCATE markers
\* found), what it returned, whether a truncation
\* passed its commit rename, and clean: every call since open that changed
\* something returned nil
NoOp == [op |-> "none", idx |-> 0, err |-> ErrNone, committed |-> FALSE, clean |-> TRUE]

Init ==
    /\ disk = <<>>
    /\ segments = <<>>
    /\ firstOffset = 0
    /\ lastOffset = -1
    /\ sfile = closedHandle
    /\ scache = <<>>
    /\ closed = FALSE
    /\ corrupt = FALSE
    /\ inMemory = FALSE
    /\ alive = FALSE
    /\ lastOp = NoOp
    /\ written = <<>>
    /\ crashes = 0
    /\ reading = [t \in Threads |-> Idle]
    /\ InitServices

\* the fields of the Log and the directory
Persist(w) ==
    <<w.disk, w.segments, w.firstOffset, w.lastOffset, w.sfile, w.scache,
      w.closed, w.corrupt>>

\* the state after a call that returned r; after is what written becomes when
\* the call returned nil and changed something.  A panic that nothing
\* recovers and a crash end the process: the Log is gone (firstOffset and
\* lastOffset keep the values of the lost Log, for reference).
Landed(r, op, idx, after) ==
    /\ disk' = r.w.disk
    /\ UNCHANGED <<inMemory, serviceVars>>
    /\ crashes' = IF r.err = Crashed \/ (r.w.mode = "fail" /\ r.w.fuse = -1)
                  THEN crashes + 1 ELSE crashes
    /\ written' = IF r.err = ErrNone /\ Persist(r.w) # Persist(World)
                  THEN after ELSE written
    /\ IF r.err \in {Panic, Crashed}
       THEN /\ alive' = FALSE
            /\ segments' = <<>>
            /\ scache' = <<>>
            /\ sfile' = closedHandle
            /\ closed' = FALSE
            /\ corrupt' = FALSE
            /\ UNCHANGED <<firstOffset, lastOffset>>
            /\ lastOp' = [op |-> op, idx |-> idx, err |-> r.err,
                          committed |-> r.w.committed, clean |-> FALSE]
       ELSE /\ alive' = alive
            /\ segments' = r.w.segments
            /\ firstOffset' = r.w.firstOffset
            /\ lastOffset' = r.w.lastOffset
            /\ sfile' = r.w.sfile
            /\ scache' = r.w.scache
            /\ closed' = r.w.closed
            /\ corrupt' = r.w.corrupt
            /\ lastOp' = IF Persist(r.w) = Persist(World) THEN lastOp
                         ELSE [op |-> op, idx |-> idx, err |-> r.err,
                               committed |-> r.w.committed,
                               clean |-> lastOp.clean /\ r.err = ErrNone]

\* a call that holds l.mu from its first statement to its return, with no
\* thread inside Read
Returned(r, op, idx, after) ==
    /\ Landed(r, op, idx, after)
    /\ UNCHANGED reading

\* the state after open returned r; idx is the number of TRUNCATE markers open
\* found in the directory.  After a crash inside a truncation that
\* had passed its commit rename, the entries the truncation discards count
\* as truncated.
Opened(r) ==
    /\ disk' = r.w.disk
    /\ lastOp' = [op |-> "open",
                  idx |-> Cardinality({name \in DOMAIN disk :
                                          name.suf = truncateSuffix}),
                  err |-> r.err, committed |-> FALSE, clean |-> TRUE]
    /\ alive' = (r.err = ErrNone)
    /\ segments' = r.w.segments
    /\ firstOffset' = r.w.firstOffset
    /\ lastOffset' = r.w.lastOffset
    /\ sfile' = r.w.sfile
    /\ scache' = r.w.scache
    /\ closed' = r.w.closed
    /\ corrupt' = r.w.corrupt
    /\ written' =
          IF lastOp.err = Crashed /\ lastOp.committed
          THEN IF lastOp.op = "TruncateFront"
               THEN restrict(written, {o \in Offsets : o >= lastOp.idx})
               ELSE restrict(written, {o \in Offsets : o <= lastOp.idx})
          ELSE written
    /\ UNCHANGED <<inMemory, crashes, reading, serviceVars>>

\* open(path, opts) by a process that holds no open Log of the directory
DoOpen ==
    /\ ~alive \/ closed
    /\ Opened(open(World))

\* the caller goes on with a Log as long as its calls return nil; after an
\* error from a call that changed something it closes the Log
Usable == alive /\ ~closed /\ lastOp.clean

\* the process that recovers a log after a crash reads it
Writable == Usable /\ crashes = 0

DoClose ==
    /\ alive /\ ~closed
    /\ Returned(Close(World), "Close", 0, written)

DoWrite ==
    /\ Writable
    /\ \E offset \in Offsets, n \in 1..MaxPayload :
          /\ offset > lastOffset
          /\ Returned(Write(World, offset, PayloadOf(offset, n)), "Write", 0,
                      appended(written,
                               batchWrite(emptyBatch, offset, PayloadOf(offset, n))))

DoWriteBatch ==
    /\ Writable
    /\ \E offs \in SUBSET Offsets :
          /\ Cardinality(offs) <= MaxBatch
          /\ Cardinality(offs) # 1
          /\ \A o \in offs : o > lastOffset
          /\ \E size \in [offs -> 1..MaxPayload] :
                Returned(WriteBatch(World, batchOf(offs, size)), "WriteBatch", 0,
                         appended(written, batchOf(offs, size)))

DoRead ==
    /\ Usable
    /\ \E offset \in -1..(MaxOffset + 1) :
          Returned(Read(World, offset), "Read", 0, written)

DoTruncateFront ==
    /\ Writable
    /\ \E index \in -1..(MaxOffset + 1) :
          Returned(TruncateFront(World, index), "TruncateFront", index,
                   restrict(written, {o \in Offsets : o >= index}))

DoTruncateBack ==
    /\ Writable
    /\ \E index \in -1..(MaxOffset + 1) :
          Returned(TruncateBack(World, index), "TruncateBack", index,
                   restrict(written, {o \in Offsets : o <= index}))

DoClear ==
    /\ Writable
    /\ Returned(Clear(World), "Clear", 0, <<>>)

DoClearCache ==
    /\ Usable
    /\ Returned(ClearCache(World), "ClearCache", 0, written)

DoSync ==
    /\ Usable
    /\ Returned(Sync(World), "Sync", 0, written)

\* the longest run of filesystem calls inside one truncation
MaxFuse == 18

\* how many times the process is killed in one history
MaxCrashes == 1

\* World with the process killed at the k+1st call of the filesystem
Fused(k) == [World EXCEPT !.fuse = k, !.mode = "crash"]

\* a call that was cut short
Killed(r, op, idx) ==
    /\ r.w.halted
    /\ Returned(r, op, idx, written)

\* the process is killed inside TruncateFront, after k calls of the filesystem
CrashTruncateFront ==
    /\ Usable
    /\ crashes < MaxCrashes
    /\ \E index \in Offsets, k \in 0..MaxFuse :
          Killed(TruncateFront(Fused(k), index), "TruncateFront", index)

\* the process is killed inside TruncateBack, after k calls of the filesystem
CrashTruncateBack ==
    /\ Usable
    /\ crashes < MaxCrashes
    /\ \E index \in -1..MaxOffset, k \in 0..MaxFuse :
          Killed(TruncateBack(Fused(k), index), "TruncateBack", index)

\* World in which the k+1st call of the filesystem returns an error
Failing(k) == [World EXCEPT !.fuse = k, !.mode = "fail"]

\* a call inside which a call of the filesystem returned an error
Faulted(r, op, idx, after) ==
    /\ r.w.fuse = -1
    /\ Returned(r, op, idx, after)

\* a call of the filesystem fails inside Write
FailWrite ==
    /\ Writable
    /\ crashes < MaxCrashes
    /\ \E offset \in Offsets, n \in 1..MaxPayload, k \in 0..MaxFuse :
          /\ offset > lastOffset
          /\ Faulted(Write(Failing(k), offset, PayloadOf(offset, n)), "Write", 0,
                     appended(written,
                              batchWrite(emptyBatch, offset, PayloadOf(offset, n))))

\* a call of the filesystem fails inside TruncateFront
FailTruncateFront ==
    /\ Writable
    /\ crashes < MaxCrashes
    /\ \E index \in Offsets, k \in 0..MaxFuse :
          Faulted(TruncateFront(Failing(k), index), "TruncateFront", index,
                  restrict(written, {o \in Offsets : o >= index}))

\* a call of the filesystem fails inside TruncateBack
FailTruncateBack ==
    /\ Writable
    /\ crashes < MaxCrashes
    /\ \E index \in -1..MaxOffset, k \in 0..MaxFuse :
          Faulted(TruncateBack(Failing(k), index), "TruncateBack", index,
                  restrict(written, {o \in Offsets : o <= index}))

\* the calls of a process that is never killed
Next ==
    \/ DoOpen
    \/ DoClose
    \/ DoWrite
    \/ DoWriteBatch
    \/ DoRead
    \/ DoTruncateFront
    \/ DoTruncateBack
    \/ DoClear
    \/ DoClearCache
    \/ DoSync

Spec == Init /\ [][Next]_vars

\* the same calls, and a process that may be killed inside a truncation
NextCrash ==
    \/ Next
    \/ CrashTruncateFront
    \/ CrashTruncateBack

SpecCrash == Init /\ [][NextCrash]_vars

\* the calls of Next, and a filesystem that may fail one call of a Write or of
\* a truncation
NextFail ==
    \/ Next
    \/ FailWrite
    \/ FailTruncateFront
    \/ FailTruncateBack

SpecFail == Init /\ [][NextFail]_vars

\* a caller that goes on with the Log after a call returned an error
Insisting == alive /\ ~closed /\ ~lastOp.clean

InsistTruncateFront ==
    /\ Insisting
    /\ \E index \in Offsets :
          Returned(TruncateFront(World, index), "TruncateFront", index,
                   restrict(written, {o \in Offsets : o >= index}))

InsistTruncateBack ==
    /\ Insisting
    /\ \E index \in -1..MaxOffset :
          Returned(TruncateBack(World, index), "TruncateBack", index,
                   restrict(written, {o \in Offsets : o <= index}))

\* the calls of Next, a filesystem that may fail one call of a Write, and a
\* caller that truncates the log after an error
NextInsist ==
    \/ Next
    \/ FailWrite
    \/ InsistTruncateFront
    \/ InsistTruncateBack

SpecInsist == Init /\ [][NextInsist]_vars

\* the directories open may find: at most MaxDirFiles files, named TEMP or by
\* an offset of 0..MaxDirOffset alone or with a marker suffix, each holding
\* nothing, one entry, or a frame whose length exceeds the bytes that follow
MaxDirFiles == 3

MaxDirOffset == 2

DirNames ==
    {tempFileName}
        \cup {[off |-> o, suf |-> x] :
                  o \in 0..MaxDirOffset,
                  x \in {NoSuffix, startSuffix, endSuffix, truncateSuffix}}

DirContents == {<<>>, appendEntry(<<>>, <<1>>).out, <<2, 1>>}

Dirs ==
    UNION {[S -> DirContents] :
              S \in {T \in SUBSET DirNames : Cardinality(T) <= MaxDirFiles}}

\* no Log yet, over any of these directories
InitDir ==
    /\ disk \in Dirs
    /\ segments = <<>>
    /\ firstOffset = 0
    /\ lastOffset = -1
    /\ sfile = closedHandle
    /\ scache = <<>>
    /\ closed = FALSE
    /\ corrupt = FALSE
    /\ inMemory = FALSE
    /\ alive = FALSE
    /\ lastOp = NoOp
    /\ written = <<>>
    /\ crashes = 0
    /\ reading = [t \in Threads |-> Idle]
    /\ InitServices

\* open of a directory, reads of the log it yields, Close
NextDir ==
    \/ DoOpen
    \/ DoRead
    \/ DoClose

SpecDir == InitDir /\ [][NextDir]_vars

\* ------------------------------------------------------------ observations
\* the offsets a caller may ask for
Asked == -1..(MaxOffset + 1)

\* what a caller observes of a Log: FirstIndex, LastIndex and every Read
View(w) ==
    [first |-> FirstIndex(w), last |-> LastIndex(w),
     reads |-> [o \in Asked |-> ReadResult(w, o)]]

\* the World the next process finds: no event is pending in it
Restart(w) ==
    [w EXCEPT !.fuse = -1, !.mode = "none", !.halted = FALSE, !.committed = FALSE]

\* Close of the Log, then open of its directory
Reopened(w) == open(Close(w).w)

Found(data) == [err |-> ErrNone, data |-> data]

NotFound == [err |-> ErrNotFound, data |-> <<>>]

\* the files of the directory with a marker suffix
Markers(d, suf) == {name \in DOMAIN d : name.suf = suf}

\* what a caller observes once TruncateFront(index) took effect on w
FrontView(w, index) ==
    [first |-> [index |-> index, err |-> ErrNone], last |-> LastIndex(w),
     reads |-> [o \in Asked |->
                   IF o < index \/ o > w.lastOffset THEN NotFound
                   ELSE ReadResult(w, o)]]

\* what a caller observes once TruncateBack(index) took effect on w
BackView(w, index) ==
    [first |-> FirstIndex(w), last |-> [index |-> index, err |-> ErrNone],
     reads |-> [o \in Asked |->
                   IF o > index \/ o < w.firstOffset THEN NotFound
                   ELSE ReadResult(w, o)]]

\* the payload sizes of the appends a claim is checked on: one byte, and an
\* entry that fills a segment by itself
Sizes == {1, SegmentSize - 1}

\* the non-empty batches a caller may submit in the current state
Batches ==
    UNION {{batchOf(offs, size) : size \in [offs -> Sizes]} :
              offs \in {s \in SUBSET Offsets :
                           /\ s # {}
                           /\ Cardinality(s) <= MaxBatch
                           /\ \A o \in s : o > lastOffset}}

\* ------------------------------------------------------------------ claims
\* C1 (round trip): after successful calls only, Read of every offset that
\* was appended and not truncated returns the payload appended at it.
C1_RoundTrip ==
    Usable => \A o \in DOMAIN written : ReadResult(World, o) = Found(written[o])

\* C2 (reopen): after successful appends and truncations only, Close followed
\* by open yields a log with the same FirstIndex, the same LastIndex and the
\* same Read result at every offset.
C2_ReopenSame ==
    Usable => /\ Close(World).err = ErrNone
              /\ Reopened(World).err = ErrNone
              /\ View(Reopened(World).w) = View(World)

\* C3 (crash in TruncateBack after the END rename): for every index and every
\* place where the process may be killed while the END file exists, the
\* reopened log has the first offset of before, LastIndex = index, the Read
\* results of before at every offset up to index, and accepts an append at
\* index + 1.
C3_BackCrashRecovers ==
    Usable =>
        \A index \in firstOffset..(lastOffset - 1), k \in 0..MaxFuse :
            LET r == TruncateBack(Fused(k), index)
                o == open(Restart(r.w))
            IN  (r.w.halted /\ r.w.committed /\ Markers(r.w.disk, endSuffix) # {})
                => /\ o.err = ErrNone
                   /\ FirstIndex(o.w) = FirstIndex(World)
                   /\ LastIndex(o.w).index = index
                   /\ \A x \in firstOffset..index :
                         ReadResult(o.w, x) = ReadResult(World, x)
                   /\ Write(o.w, index + 1, PayloadOf(index + 1, 1)).err = ErrNone

\* C4 (crash in TruncateFront after the START rename): for every index and
\* every place where the process may be killed while the START file exists,
\* the reopened log has FirstIndex = index, the last offset of before and the
\* Read results of before at every offset from index on.
C4_FrontCrashRecovers ==
    Usable =>
        \A index \in (firstOffset + 1)..lastOffset, k \in 0..MaxFuse :
            LET r == TruncateFront(Fused(k), index)
                o == open(Restart(r.w))
            IN  (r.w.halted /\ r.w.committed /\ Markers(r.w.disk, startSuffix) # {})
                => /\ o.err = ErrNone
                   /\ FirstIndex(o.w).index = index
                   /\ LastIndex(o.w) = LastIndex(World)
                   /\ \A x \in index..lastOffset :
                         ReadResult(o.w, x) = ReadResult(World, x)

\* C5 (atomicity): wherever the process is killed inside TruncateFront or
\* TruncateBack, open succeeds and the reopened log is the log of before or
\* the truncated log.
C5_CrashAtomic ==
    Usable =>
        \A k \in 0..MaxFuse :
            /\ \A index \in (firstOffset + 1)..lastOffset :
                  LET r == TruncateFront(Fused(k), index)
                      o == open(Restart(r.w))
                  IN  r.w.halted =>
                         /\ o.err = ErrNone
                         /\ View(o.w) \in {View(World), FrontView(World, index)}
            /\ \A index \in firstOffset..(lastOffset - 1) :
                  LET r == TruncateBack(Fused(k), index)
                      o == open(Restart(r.w))
                  IN  r.w.halted =>
                         /\ o.err = ErrNone
                         /\ View(o.w) \in {View(World), BackView(World, index)}

\* C6 (TruncateFront): in an open, non-corrupt log and for
\* first < index <= last the call returns nil, and then FirstIndex = index,
\* LastIndex is the one of before, Read fails with ErrNotFound below index and
\* returns what it returned before from index on.
C6_TruncateFrontEffect ==
    (Usable /\ ~corrupt) =>
        \A index \in (firstOffset + 1)..lastOffset :
            LET r == TruncateFront(World, index)
            IN  /\ r.err = ErrNone
                /\ View(r.w) = FrontView(World, index)

\* C7 (TruncateBack): in an open, non-corrupt log and for
\* first <= index < last the call returns nil, and then LastIndex = index,
\* FirstIndex is the one of before, Read fails with ErrNotFound above index
\* and returns what it returned before up to index, and the tail is the
\* segment that holds index, open for append.
C7_TruncateBackEffect ==
    (Usable /\ ~corrupt) =>
        \A index \in firstOffset..(lastOffset - 1) :
            LET r == TruncateBack(World, index)
            IN  /\ r.err = ErrNone
                /\ View(r.w) = BackView(World, index)
                /\ tail(r.w).offset <= index
                /\ index < tail(r.w).offset + Len(tail(r.w).epos)
                /\ ~r.w.sfile.closed
                /\ r.w.sfile.path = tail(r.w).path

\* C8 (TruncateBack(first - 1)): on a log that stores at least one entry the
\* call returns nil, and then LastIndex = first - 1, FirstIndex is the one of
\* before, every Read fails with ErrNotFound, and the directory holds one
\* empty segment file named by the first offset.
C8_TruncateBackAllEmpties ==
    (Usable /\ ~corrupt /\ lastOffset >= firstOffset) =>
        LET r == TruncateBack(World, firstOffset - 1)
        IN  /\ r.err = ErrNone
            /\ FirstIndex(r.w) = FirstIndex(World)
            /\ LastIndex(r.w).index = firstOffset - 1
            /\ \A o \in Asked : ReadResult(r.w, o) = NotFound
            /\ DOMAIN r.w.disk = {segmentName(firstOffset)}
            /\ r.w.disk[segmentName(firstOffset)] = <<>>

\* C9 (dense range): in an open, non-corrupt log Read returns a payload at
\* every offset from first_offset to last_offset.
C9_DenseRange ==
    (alive /\ ~closed /\ ~corrupt) =>
        \A o \in firstOffset..lastOffset : ReadResult(World, o).err = ErrNone

\* C10 (append monotonicity): when Write or WriteBatch of a non-empty batch
\* returns nil, LastIndex is the highest offset of the call, whether or not
\* the batch cycles the tail, once or more, at its last entry or before.
C10_AppendSetsLast ==
    Usable =>
        \A b \in Batches :
            LET r == WriteBatch(World, b)
                s == Write(World, b.entries[1].offset, b.datas)
            IN  /\ r.err = ErrNone
                      => LastIndex(r.w) = [index |-> Last(b.entries).offset,
                                           err |-> ErrNone]
                /\ (Len(b.entries) = 1 /\ s.err = ErrNone)
                      => LastIndex(s.w) = [index |-> b.entries[1].offset,
                                           err |-> ErrNone]

\* C10 witness: a WriteBatch has just returned nil after its last entry filled
\* the tail, so that the tail is the new empty segment
C10_CycledAtLastEntry ==
    /\ Usable
    /\ lastOp.op = "WriteBatch"
    /\ lastOp.err = ErrNone
    /\ Len(segments) >= 2
    /\ Len(tail(World).ebuf) = 0
    /\ tail(World).offset = lastOffset + 1

\* C11 (read outside the range): on an open, non-corrupt log Read of an offset
\* below first_offset or above last_offset returns ErrNotFound and leaves the
\* segments, the cache, the offsets and the directory as they were; on an
\* empty log that is every offset.
C11_ReadOutsideNotFound ==
    (alive /\ ~closed /\ ~corrupt) =>
        \A o \in Asked :
            (o < firstOffset \/ o > lastOffset) =>
                /\ Read(World, o) = [w |-> World, err |-> ErrNotFound,
                                     data |-> <<>>]
                /\ (lastOffset < firstOffset => ReadResult(World, o) = NotFound)

\* C11 witness: an open log that holds entries above offset 0 with a cached
\* segment answers ErrNotFound below and above its range
C11_AskedBelowAndAbove ==
    /\ Usable
    /\ ~corrupt
    /\ 0 < firstOffset
    /\ firstOffset <= lastOffset
    /\ Len(scache) > 0
    /\ Read(World, firstOffset - 1).err = ErrNotFound
    /\ Read(World, lastOffset + 1).err = ErrNotFound

\* the log stores no entry: no file of its segment list holds a frame
Empty(w) ==
    \A i \in 1..Len(w.segments) :
        fileExists(w.disk, w.segments[i].path) =>
            decodeEntries(w.disk[w.segments[i].path], 0, <<>>).epos = <<>>

\* C12 (bounds invariant): between the calls on an open log, whether they
\* returned nil or an error, first_offset <= last_offset + 1, and the two are
\* equal exactly when the log stores no entry.
C12_Bounds ==
    (alive /\ ~closed) =>
        /\ firstOffset <= lastOffset + 1
        /\ (firstOffset = lastOffset + 1) <=> Empty(World)

\* C13 (front-truncate idempotence): in every open, non-corrupt state, the
\* empty log included, TruncateFront(FirstIndex()) returns nil and leaves
\* first_offset, last_offset, the segment list, the directory and every Read
\* result as they were.
C13_TruncateFrontFirstNoOp ==
    (alive /\ ~closed /\ ~corrupt) =>
        LET r == TruncateFront(World, FirstIndex(World).index)
        IN  /\ r.err = ErrNone
            /\ Persist(r.w) = Persist(World)
            /\ View(r.w) = View(World)

\* C14 (back-truncate idempotence): in every open, non-corrupt state, the
\* empty log included, TruncateBack(LastIndex()) returns nil and leaves
\* first_offset, last_offset, the segment list, the directory and every Read
\* result as they were.
C14_TruncateBackLastNoOp ==
    (alive /\ ~closed /\ ~corrupt) =>
        LET r == TruncateBack(World, LastIndex(World).index)
        IN  /\ r.err = ErrNone
            /\ Persist(r.w) = Persist(World)
            /\ View(r.w) = View(World)

\* C15 (out-of-range truncation): on an open, non-corrupt log TruncateFront(idx)
\* with idx < first_offset or idx > last_offset, and TruncateBack(idx) with
\* idx < first_offset - 1 or idx > last_offset, return ErrOutOfRange and leave
\* the in-memory state and the directory as they were.
C15_OutOfRangeUnchanged ==
    (alive /\ ~closed /\ ~corrupt) =>
        \A idx \in Asked :
            /\ (idx < firstOffset \/ idx > lastOffset)
                  => TruncateFront(World, idx) = Fail(World, ErrOutOfRange)
            /\ (idx < firstOffset - 1 \/ idx > lastOffset)
                  => TruncateBack(World, idx) = Fail(World, ErrOutOfRange)

\* the calls of the filesystem a truncation at index makes before it creates
\* TEMP: the read of a segment that is not materialized
callsBeforeTemp(w, index) ==
    MaxFuse - loadSegment([w EXCEPT !.fuse = MaxFuse, !.mode = "fail"], index).w.fuse

\* the calls on TEMP, in order: creating, writing, fsyncing and closing it
TempCalls == 0..3

\* a truncation that returned r gave up before its commit: it returned the
\* error, renamed nothing to a marker name and left the offsets, the segment
\* list and the segment files as they are in the current state
AbortedBeforeCommit(r) ==
    /\ r.err = ErrIO
    /\ ~r.w.committed
    /\ r.w.firstOffset = firstOffset
    /\ r.w.lastOffset = lastOffset
    /\ pathsOf(r.w.segments) = pathsOf(segments)
    /\ DOMAIN r.w.disk \ {tempFileName} = DOMAIN disk \ {tempFileName}
    /\ \A name \in DOMAIN disk \ {tempFileName} : r.w.disk[name] = disk[name]

\* C16 (pre-commit failure): when creating, writing, fsyncing or closing TEMP
\* fails inside TruncateFront or TruncateBack, the call returns that error,
\* TEMP is not renamed to the marker name, and first_offset, last_offset, the
\* segment list and the segment files are unchanged.
C16_TempFailureAborts ==
    Writable =>
        \A index \in Offsets, j \in TempCalls :
            LET k == callsBeforeTemp(World, index) + j
                f == TruncateFront(Failing(k), index)
                b == TruncateBack(Failing(k), index)
            IN  /\ (firstOffset < index /\ index <= lastOffset /\ f.w.fuse = -1)
                      => AbortedBeforeCommit(f)
                /\ (firstOffset <= index /\ index < lastOffset /\ b.w.fuse = -1)
                      => AbortedBeforeCommit(b)

\* the calls of the filesystem a truncation makes after its commit rename,
\* counted from the first call of the truncation
CleanupCalls(w, index) ==
    (callsBeforeTemp(w, index) + 5)..MaxFuse

\* C17 (post-commit failure): when a call of the filesystem fails after the
\* commit rename of TruncateFront or TruncateBack (closing the tail, removing
\* a segment, the rename that drops the suffix, reopening or reading the
\* tail), the log sets its corrupt flag and the call returns ErrCorrupt.
C17_CleanupFailureCorrupts ==
    Writable =>
        \A index \in Offsets :
            \A k \in CleanupCalls(World, index) :
                LET f == TruncateFront(Failing(k), index)
                    b == TruncateBack(Failing(k), index)
                IN  /\ (firstOffset < index /\ index <= lastOffset /\ f.w.fuse = -1)
                          => (f.err = ErrCorrupt /\ f.w.corrupt)
                    /\ (firstOffset <= index /\ index < lastOffset /\ b.w.fuse = -1)
                          => (b.err = ErrCorrupt /\ b.w.corrupt)

\* the Log w after one more call on the handle that returns, or after none
Afterwards(w) ==
    {w}
        \cup {Read(w, o).w : o \in Asked}
        \cup {Sync(w).w, ClearCache(w).w}
        \cup {r.w : r \in {r \in {TruncateFront(w, i) : i \in Asked}
                                     \cup {TruncateBack(w, i) : i \in Asked} :
                              r.err # Panic}}

\* Close of each Log of ws and open of its directory return nil, and the log
\* opened answers every Read as reads says
Recovers(ws, reads) ==
    \A w \in ws :
        LET c == Close(w)
            o == open(Restart(c.w))
        IN  /\ c.err = ErrNone
            /\ o.err = ErrNone
            /\ \A a \in Asked : ReadResult(o.w, a) = reads[a]

\* a truncation returned r with an error after a call of the filesystem
\* failed past its commit rename
FailedCleanup(r) ==
    /\ r.w.fuse = -1
    /\ r.w.committed
    /\ r.err \notin {ErrNone, Panic}

\* C18 (recovery after a failed cleanup): after a truncation returned an
\* error past its commit rename, and whatever is called on the handle next,
\* Close returns nil, open of the directory returns nil, and the log opened
\* is the truncated one.
C18_CloseOpenRecovers ==
    Writable =>
        \A index \in Offsets :
            \A k \in CleanupCalls(World, index) :
                LET f == TruncateFront(Failing(k), index)
                    b == TruncateBack(Failing(k), index)
                IN  /\ (firstOffset < index /\ index <= lastOffset /\ FailedCleanup(f))
                          => Recovers(Afterwards(Restart(f.w)),
                                      FrontView(World, index).reads)
                    /\ (firstOffset <= index /\ index < lastOffset /\ FailedCleanup(b))
                          => Recovers(Afterwards(Restart(b.w)),
                                      BackView(World, index).reads)

\* what a crash leaves of the directory: every file with what was last
\* fsynced of it
Durable(w) == [name \in DOMAIN w.disk |-> w.synced[name]]

\* the World the next process finds after a crash that discards the file data
\* not fsynced
PowerCut(w) == Restart([w EXCEPT !.disk = Durable(w), !.synced = Durable(w)])

\* C19 (durability): once Write or WriteBatch has returned nil (no_sync is
\* false), a crash that discards all file data not fsynced, followed by open,
\* yields a log that holds every entry of that call and of the earlier
\* successful calls, also when the batch cycled the tail.
C19_DurableAfterAppend ==
    Usable =>
        \A b \in Batches :
            LET r == WriteBatch(World, b)
                o == open(PowerCut(r.w))
            IN  r.err = ErrNone =>
                    /\ o.err = ErrNone
                    /\ \A a \in DOMAIN appended(written, b) :
                          ReadResult(o.w, a) = Found(appended(written, b)[a])

\* C20 (closed state): after Close returned nil on a log that is not corrupt,
\* every call of Write, WriteBatch, Read, FirstIndex, LastIndex, Sync,
\* ClearCache, TruncateFront, TruncateBack, Clear and Close returns ErrClosed
\* and changes neither the Log nor the directory.
C20_ClosedRefusesAll ==
    (alive /\ closed /\ ~corrupt) =>
        /\ \A b \in Batches \cup {emptyBatch} :
              /\ WriteBatch(World, b) = Fail(World, ErrClosed)
              /\ Len(b.entries) = 1
                    => Write(World, b.entries[1].offset, b.datas)
                           = Fail(World, ErrClosed)
        /\ \A o \in Asked :
              Read(World, o) = [w |-> World, err |-> ErrClosed, data |-> <<>>]
        /\ FirstIndex(World).err = ErrClosed
        /\ LastIndex(World).err = ErrClosed
        /\ Sync(World) = Fail(World, ErrClosed)
        /\ ClearCache(World) = Fail(World, ErrClosed)
        /\ \A index \in Asked :
              /\ TruncateFront(World, index) = Fail(World, ErrClosed)
              /\ TruncateBack(World, index) = Fail(World, ErrClosed)
        /\ Clear(World) = Fail(World, ErrClosed)
        /\ Close(World) = Fail(World, ErrClosed)

\* C20 witness: Close has just returned nil on a log that holds entries in two
\* segments, and a Write of the next offset is refused
C20_ClosedWithEntries ==
    /\ alive
    /\ closed
    /\ ~corrupt
    /\ lastOp.op = "Close"
    /\ lastOp.err = ErrNone
    /\ firstOffset <= lastOffset
    /\ Len(segments) >= 2
    /\ Write(World, lastOffset + 1, <<1>>).err = ErrClosed

\* C21 (sticky corruption): on a Log whose corrupt flag is set, every call of
\* Write, WriteBatch, Read, FirstIndex, LastIndex, Sync, ClearCache,
\* TruncateFront, TruncateBack, Clear and Close returns ErrCorrupt and leaves
\* the flag set.
C21_CorruptRefusesAll ==
    (alive /\ corrupt) =>
        /\ \A b \in Batches \cup {emptyBatch} :
              /\ WriteBatch(World, b).err = ErrCorrupt
              /\ WriteBatch(World, b).w.corrupt
              /\ Len(b.entries) = 1
                    => /\ Write(World, b.entries[1].offset, b.datas).err = ErrCorrupt
                       /\ Write(World, b.entries[1].offset, b.datas).w.corrupt
        /\ \A o \in Asked : Read(World, o).err = ErrCorrupt /\ Read(World, o).w.corrupt
        /\ FirstIndex(World).err = ErrCorrupt
        /\ LastIndex(World).err = ErrCorrupt
        /\ Sync(World).err = ErrCorrupt /\ Sync(World).w.corrupt
        /\ ClearCache(World).err = ErrCorrupt /\ ClearCache(World).w.corrupt
        /\ \A index \in Asked :
              /\ TruncateFront(World, index).err = ErrCorrupt
              /\ TruncateFront(World, index).w.corrupt
              /\ TruncateBack(World, index).err = ErrCorrupt
              /\ TruncateBack(World, index).w.corrupt
        /\ Clear(World).err = ErrCorrupt /\ Clear(World).w.corrupt
        /\ Close(World).err = ErrCorrupt /\ Close(World).w.corrupt

\* the marker suffixes of which the directory d holds a file
MarkerKinds(d) ==
    {x \in {startSuffix, endSuffix, truncateSuffix} : Markers(d, x) # {}}

\* C22 (conflicting markers): open of a directory that holds markers of more
\* than one kind among .START, .END and .TRUNCATE, or more than one .TRUNCATE
\* file, returns ErrCorrupt.
C22_ConflictingMarkersRejected ==
    (~alive /\ (\/ Cardinality(MarkerKinds(disk)) > 1
                \/ Cardinality(Markers(disk, truncateSuffix)) > 1))
        => open(World).err = ErrCorrupt

\* C22 witness: open has just returned ErrCorrupt on a directory with a plain
\* segment, an END and a TRUNCATE marker
C22_OpenRefusedEndAndTruncate ==
    /\ ~alive
    /\ lastOp.op = "open"
    /\ lastOp.err = ErrCorrupt
    /\ Markers(disk, endSuffix) # {}
    /\ Markers(disk, truncateSuffix) # {}
    /\ Markers(disk, NoSuffix) # {}


\* the directory d holds one file, the empty segment of offset 0
OnlyEmptySegmentZero(d) ==
    /\ DOMAIN d = {segmentName(0)}
    /\ d[segmentName(0)] = <<>>

InitMem ==
    /\ disk = <<>>
    /\ segments = <<>>
    /\ firstOffset = 0
    /\ lastOffset = -1
    /\ sfile = closedHandle
    /\ scache = <<>>
    /\ closed = FALSE
    /\ corrupt = FALSE
    /\ inMemory = TRUE
    /\ alive = FALSE
    /\ lastOp = NoOp
    /\ written = <<>>
    /\ crashes = 0
    /\ reading = [t \in Threads |-> Idle]
    /\ InitServices

\* the calls of a caller that appends, reads, clears and reopens
NextMem == DoOpen \/ DoWrite \/ DoRead \/ DoClear \/ DoClose

SpecMem == InitMem /\ [][NextMem]_vars

\* the Log w is empty at offset 0 and its directory holds only the empty
\* segment of offset 0
EmptyAtZero(w) ==
    /\ FirstIndex(w) = [index |-> 0, err |-> ErrNone]
    /\ LastIndex(w) = [index |-> -1, err |-> ErrNone]
    /\ OnlyEmptySegmentZero(w.disk)

\* C24 (Clear): on an open Log that is not corrupt, with either filesystem,
\* Clear() returns nil and leaves FirstIndex() = 0, LastIndex() = -1 and a
\* directory that holds only the empty segment of offset 0, and a Close and
\* open that follow give the same empty Log.
C24_ClearEmpties ==
    (alive /\ ~closed /\ ~corrupt)
        => /\ Clear(World).err = ErrNone
           /\ EmptyAtZero(Clear(World).w)
           /\ Close(Clear(World).w).err = ErrNone
           /\ open(Close(Clear(World).w).w).err = ErrNone
           /\ EmptyAtZero(open(Close(Clear(World).w).w).w)


\* a caller that appends at consecutive offsets from a fresh log, one entry at
\* a time or in batches, with payloads of one byte and payloads that fill a
\* segment, and reads, closes and opens in between
SeqWrite ==
    /\ Writable
    /\ lastOffset < MaxOffset
    /\ \E n \in Sizes :
          Returned(Write(World, lastOffset + 1, PayloadOf(lastOffset + 1, n)),
                   "Write", 0,
                   appended(written, batchWrite(emptyBatch, lastOffset + 1,
                                                PayloadOf(lastOffset + 1, n))))

SeqWriteBatch ==
    /\ Writable
    /\ \E k \in 2..MaxBatch :
          /\ lastOffset + k <= MaxOffset
          /\ \E size \in [(lastOffset + 1)..(lastOffset + k) -> Sizes] :
                Returned(WriteBatch(World,
                                    batchOf((lastOffset + 1)..(lastOffset + k), size)),
                         "WriteBatch", 0,
                         appended(written,
                                  batchOf((lastOffset + 1)..(lastOffset + k), size)))

NextSeq == DoOpen \/ SeqWrite \/ SeqWriteBatch \/ DoRead \/ DoClose

SpecSeq == Init /\ [][NextSeq]_vars

\* the payloads framed in the bytes of a file, in order
RECURSIVE Payloads(_)
Payloads(data) ==
    IF Len(data) = 0 THEN <<>>
    ELSE IF loadNextEntry(data).err # ErrNone THEN <<ErrCorrupt>>
    ELSE <<Slice(data, Uvarint(data).n, loadNextEntry(data).n)>>
             \o Payloads(SliceFrom(data, loadNextEntry(data).n))

\* the payloads of the files names of the directory d, one file after another
RECURSIVE Concatenated(_, _)
Concatenated(d, names) ==
    IF Len(names) = 0 THEN <<>>
    ELSE Payloads(d[names[1]]) \o Concatenated(d, Tail(names))

\* the payloads appended, by offset
Appended == [i \in 1..Cardinality(DOMAIN written) |-> written[i - 1]]

\* C25 (segment cycles): after appends at consecutive offsets, one by one or in
\* batches, the segment files listed by name have strictly increasing base
\* offsets, the first entry of every non-empty file is the entry appended at the
\* base offset of the file, and the files decoded one after another give the
\* appended entries in order.
C25_CyclesPreserveEntries ==
    /\ DOMAIN written = 0..(Cardinality(DOMAIN written) - 1)
    /\ \A i \in 1..(Len(readDir(disk)) - 1) :
          readDir(disk)[i].off < readDir(disk)[i + 1].off
    /\ \A name \in DOMAIN disk :
          disk[name] # <<>>
              => /\ name.off \in DOMAIN written
                 /\ Payloads(disk[name])[1] = written[name.off]
    /\ Concatenated(disk, readDir(disk)) = Appended

\* C25 witness: a batch has returned nil and the directory holds three
\* segment files with entries
C25_ThreeSegments ==
    /\ lastOp.op = "WriteBatch"
    /\ lastOp.err = ErrNone
    /\ Cardinality({name \in DOMAIN disk : disk[name] # <<>>}) >= 3
    /\ \E name \in DOMAIN disk : Len(Payloads(disk[name])) > 1


\* ------------------------------------------------------- concurrent readers
\* no thread is inside Read: l.mu is free
Quiet == \A t \in Threads : reading[t].pc = "idle"

\* Read, from l.mu.RLock() to the range check: the thread holds the shared
\* lock from here to its return.  want is what Read returns when no other
\* thread runs.
ReadBegin(t) ==
    /\ Usable
    /\ reading[t].pc = "idle"
    /\ \E offset \in Offsets :
          reading' = [reading EXCEPT ![t] =
              IF offset < firstOffset \/ offset > lastOffset
              THEN [pc |-> "done", offset |-> offset, seg |-> 0,
                    want |-> ReadResult(World, offset),
                    got |-> [err |-> ErrNotFound, data |-> <<>>]]
              ELSE [pc |-> "load", offset |-> offset, seg |-> 0,
                    want |-> ReadResult(World, offset),
                    got |-> [err |-> ErrNone, data |-> <<>>]]]
    /\ UNCHANGED <<logVars, serviceVars>>

\* Read, s, err := l.loadSegment(offset), still under the shared lock
ReadLoad(t) ==
    /\ alive
    /\ reading[t].pc = "load"
    /\ Landed(loadSegment(World, reading[t].offset), "Read", 0, written)
    /\ reading' = [reading EXCEPT ![t] =
          IF loadSegment(World, reading[t].offset).err # ErrNone
          THEN [@ EXCEPT !.pc = "done",
                         !.got = [err |-> loadSegment(World, reading[t].offset).err,
                                  data |-> <<>>]]
          ELSE [@ EXCEPT !.pc = "entry",
                         !.seg = loadSegment(World, reading[t].offset).seg]]

\* Read, from epos := s.epos[offset-s.offset] to the return value
ReadEntry(t) ==
    /\ alive
    /\ reading[t].pc = "entry"
    /\ Landed(readEntry([w |-> World, err |-> ErrNone, seg |-> reading[t].seg],
                        reading[t].offset), "Read", 0, written)
    /\ reading' = [reading EXCEPT ![t] =
          [@ EXCEPT !.pc = "done",
                    !.got = Outcome(readEntry([w |-> World, err |-> ErrNone,
                                               seg |-> reading[t].seg],
                                              reading[t].offset))]]

\* the deferred l.mu.RUnlock(), or the end of the process after a panic
ReadReturn(t) ==
    /\ reading[t].pc = "done" \/ (~alive /\ reading[t].pc # "idle")
    /\ reading' = [reading EXCEPT ![t] = Idle]
    /\ UNCHANGED <<logVars, serviceVars>>

\* Write and Close take l.mu.Lock(): they run when no thread is inside Read
LockedWrite == Quiet /\ SeqWrite

LockedClose == Quiet /\ DoClose

LockedOpen == Quiet /\ DoOpen

NextReaders ==
    \/ LockedOpen
    \/ LockedWrite
    \/ LockedClose
    \/ \E t \in Threads : ReadBegin(t)
    \/ \E t \in Threads : ReadLoad(t)
    \/ \E t \in Threads : ReadEntry(t)
    \/ \E t \in Threads : ReadReturn(t)

SpecReaders == Init /\ [][NextReaders]_vars

\* the buffers, the position tables and the LRU of the Log
Cache ==
    <<scache, [i \in DOMAIN segments |->
                  <<segments[i].id, segments[i].ebuf, segments[i].epos>>]>>

\* C26 (cache under the exclusive lock): the buffer and position table of a
\* segment and the LRU change only in a step of a thread that holds l.mu
\* exclusively, that is, in no step that starts or ends with a thread inside
\* Read under the shared lock.
C26_CacheUnderExclusiveLock ==
    [][(alive /\ alive' /\ Cache' # Cache) => (Quiet /\ Quiet')]_vars

\* C27 (concurrent reads): with no writer running, every Read that returns,
\* whatever the other threads inside Read do, returns what a Read of the same
\* offset returns when it runs alone.
C27_ConcurrentReadsAgree ==
    \A t \in Threads : reading[t].pc = "done" => reading[t].got = reading[t].want


\* the files of the directory d with a .START, .END or .TRUNCATE suffix
AllMarkers(d) ==
    Markers(d, startSuffix) \cup Markers(d, endSuffix) \cup Markers(d, truncateSuffix)

\* C28 (marker quiescence): between the calls on an open Log, whether the last
\* call returned nil or an error, the directory holds at most one file with a
\* .START, .END or .TRUNCATE suffix, and none when the last call was a
\* truncation that returned nil.
C28_MarkerQuiescence ==
    (alive /\ ~closed)
        => /\ Cardinality(AllMarkers(disk)) <= 1
           /\ (lastOp.op \in {"TruncateFront", "TruncateBack"} /\ lastOp.err = ErrNone)
                 => AllMarkers(disk) = {}


\* C29 (segment list): between the calls on an open Log whose calls returned
\* nil, l.segments is strictly increasing by offset, every listed segment has
\* a file at its path, and the first segment's offset is l.firstOffset; also
\* after a first append that jumps from the fresh log to an offset above 0.
C29_SegmentList ==
    Usable
        => /\ Len(segments) > 0
           /\ \A i \in 1..(Len(segments) - 1) :
                 segments[i].offset < segments[i + 1].offset
           /\ \A i \in 1..Len(segments) : fileExists(disk, segments[i].path)
           /\ segments[1].offset = firstOffset


\* w is a fresh log: one empty segment of offset 0 with its file, no entries
Fresh(w) ==
    /\ Len(w.segments) = 1
    /\ w.segments[1].offset = 0
    /\ Len(w.segments[1].ebuf) = 0
    /\ w.firstOffset = 0
    /\ w.lastOffset = -1
    /\ fileExists(w.disk, segmentName(0))

\* C30 (jump from a fresh log): a first append to a fresh log whose first
\* offset is k > 0 returns nil, deletes the file of the initial segment,
\* creates a segment and a file of base offset k, and leaves FirstIndex() = k
\* and LastIndex() = the highest offset written.
C30_JumpFromFresh ==
    (Usable /\ Fresh(World))
        => \A b \in Batches :
              b.entries[1].offset > 0
                  => /\ WriteBatch(World, b).err = ErrNone
                     /\ ~fileExists(WriteBatch(World, b).w.disk, segmentName(0))
                     /\ fileExists(WriteBatch(World, b).w.disk,
                                   segmentName(b.entries[1].offset))
                     /\ \E i \in 1..Len(WriteBatch(World, b).w.segments) :
                           /\ WriteBatch(World, b).w.segments[i].offset
                                  = b.entries[1].offset
                           /\ WriteBatch(World, b).w.segments[i].path
                                  = segmentName(b.entries[1].offset)
                     /\ FirstIndex(WriteBatch(World, b).w)
                            = [index |-> b.entries[1].offset, err |-> ErrNone]
                     /\ LastIndex(WriteBatch(World, b).w)
                            = [index |-> Last(b.entries).offset, err |-> ErrNone]

\* C30 witness: the first append of the log was at an offset above 0 and
\* returned nil
C30_Jumped ==
    /\ Usable
    /\ lastOp.op \in {"Write", "WriteBatch"}
    /\ lastOp.err = ErrNone
    /\ firstOffset > 0
    /\ DOMAIN written # {}
    /\ \A o \in DOMAIN written : o >= firstOffset
    /\ lastOffset \in DOMAIN written
    /\ ~fileExists(disk, segmentName(0))
    /\ fileExists(disk, segmentName(firstOffset))


\* the segment objects the LRU holds
Cached(w) == {w.scache[i].id : i \in 1..Len(w.scache)}

\* C31 (tail residency): in every state of an open Log the last segment of
\* l.segments is not an entry of the LRU, so that neither an eviction nor
\* ClearCache drops the buffer and the position table of the tail: after
\* ClearCache the tail still has the entries up to l.lastOffset.
C31_TailNotCached ==
    (alive /\ ~closed /\ Len(segments) > 0)
        => /\ tail(World).id \notin Cached(World)
           /\ \A i \in 1..Len(scache) : scache[i].key # Len(segments)
           /\ tail(clearCache(World)).ebuf = tail(World).ebuf
           /\ tail(clearCache(World)).epos = tail(World).epos



\* the caller of SpecSeq who also truncates at both ends and clears the cache
NextTrim == NextSeq \/ DoTruncateFront \/ DoTruncateBack \/ DoClearCache

SpecTrim == Init /\ [][NextTrim]_vars

\* C32 (cache bound): in every state of an open Log the LRU holds at most
\* SegmentCacheSize entries, every segment before the tail that has a buffer or
\* a position table is an entry of the LRU, and the entry stored under key i is
\* the segment at index i of l.segments.
C32_CacheBound ==
    (alive /\ ~closed /\ Len(segments) > 0)
        => /\ Len(scache) <= SegmentCacheSize
           /\ \A i \in 1..(Len(segments) - 1) :
                 (Len(segments[i].ebuf) > 0 \/ Len(segments[i].epos) > 0)
                     => segments[i].id \in Cached(World)
           /\ \A j \in 1..Len(scache) :
                 /\ scache[j].key \in 1..Len(segments)
                 /\ segments[scache[j].key].id = scache[j].id
           /\ Cardinality({i \in 1..(Len(segments) - 1) :
                              Len(segments[i].ebuf) > 0 \/ Len(segments[i].epos) > 0})
                  <= SegmentCacheSize


\* C32 witness: the LRU is full and a segment with entries before the tail
\* is dormant, after an append
C32_FullCacheAndDormant ==
    /\ Usable
    /\ lastOp.op \in {"Write", "WriteBatch"}
    /\ Len(scache) = SegmentCacheSize
    /\ \E i \in 1..(Len(segments) - 1) :
          /\ Len(segments[i].epos) = 0
          /\ fileExists(disk, segments[i].path)
          /\ Len(disk[segments[i].path]) > 0



\* a caller that appends at LastIndex() + 1 and goes on with the Log after an
\* append returned an error
RetryWrite ==
    /\ alive /\ ~closed
    /\ lastOffset < MaxOffset
    /\ \E n \in Sizes :
          Returned(Write(World, lastOffset + 1, PayloadOf(lastOffset + 1, n)),
                   "Write", 0,
                   appended(written, batchWrite(emptyBatch, lastOffset + 1,
                                                PayloadOf(lastOffset + 1, n))))

\* a call of the filesystem fails inside such a Write
FailRetryWrite ==
    /\ alive /\ ~closed
    /\ crashes < MaxCrashes
    /\ lastOffset < MaxOffset
    /\ \E n \in Sizes, k \in 0..MaxFuse :
          Faulted(Write(Failing(k), lastOffset + 1, PayloadOf(lastOffset + 1, n)),
                  "Write", 0, written)

\* Read by that caller
RetryRead ==
    /\ alive /\ ~closed
    /\ \E offset \in Offsets : Returned(Read(World, offset), "Read", 0, written)

NextRetry == DoOpen \/ RetryWrite \/ FailRetryWrite \/ RetryRead \/ DoClose

SpecRetry == Init /\ [][NextRetry]_vars

\* C33 (last offset): between the calls on an open Log, after appends that
\* returned nil and after appends that returned an error,
\* l.lastOffset = tail.offset + len(tail.epos) - 1.
C33_LastOffsetOfTail ==
    (alive /\ ~closed /\ Len(segments) > 0)
        => lastOffset = tail(World).offset + Len(tail(World).epos) - 1


\* every entry an append reported as written is what Read returns on w
AllReadable(w) ==
    \A o \in DOMAIN written : ReadResult(w, o) = Found(written[o])

\* C34 (failed append): after a Write returned an I/O error, the Log is not
\* corrupt, and once a later append returned nil every entry reported as
\* written is returned by Read, on the same Log and after Close and open.
C34_FailedAppendNotSticky ==
    (alive /\ ~closed /\ crashes > 0)
        => /\ ~corrupt
           /\ (lastOp.op = "Write" /\ lastOp.err = ErrNone)
                 => /\ AllReadable(World)
                    /\ Reopened(World).err = ErrNone
                    /\ AllReadable(Reopened(World).w)


\* the tail file of w holds the bytes of the tail buffer and l.sfile is at
\* its end
TailMirrored(w) ==
    /\ fileExists(w.disk, tail(w).path)
    /\ w.disk[tail(w).path] = tail(w).ebuf
    /\ w.sfile.path = tail(w).path
    /\ ~w.sfile.closed
    /\ w.sfile.pos = Len(w.disk[tail(w).path])

\* C35 (tail file mirrors the tail buffer): after every Write, WriteBatch,
\* TruncateFront and TruncateBack that returned nil, the file of the tail
\* segment equals the tail's ebuf byte for byte and l.sfile is positioned at
\* the end of the file.
C35_TailFileMirrorsBuffer ==
    (alive /\ ~closed)
        => /\ \A b \in Batches :
                 WriteBatch(World, b).err = ErrNone
                     => TailMirrored(WriteBatch(World, b).w)
           /\ \A index \in Asked :
                 /\ TruncateFront(World, index).err = ErrNone
                       => TailMirrored(TruncateFront(World, index).w)
                 /\ TruncateBack(World, index).err = ErrNone
                       => TailMirrored(TruncateBack(World, index).w)


\* the Log w refuses every call with ErrCorrupt
Refuses(w) ==
    /\ w.corrupt
    /\ FirstIndex(w).err = ErrCorrupt
    /\ LastIndex(w).err = ErrCorrupt
    /\ \A o \in Asked : Read(w, o).err = ErrCorrupt

\* C36 (corrupt materialization): when Read, TruncateFront or TruncateBack has
\* to materialize a segment whose file holds a malformed frame, the call
\* returns ErrCorrupt and sets l.corrupt, so that every later call on the Log
\* returns ErrCorrupt.
C36_CorruptFrameMarksLog ==
    (alive /\ ~closed /\ ~corrupt)
        => \A o \in Asked :
              /\ Read(World, o).err = ErrCorrupt => Refuses(Read(World, o).w)
              /\ TruncateFront(World, o).err = ErrCorrupt
                    => Refuses(TruncateFront(World, o).w)
              /\ TruncateBack(World, o).err = ErrCorrupt
                    => Refuses(TruncateBack(World, o).w)


\* the TRUNCATE marker of the directory d
TruncateMarker(d) == CHOOSE name \in Markers(d, truncateSuffix) : TRUE

\* the directory d holds one TRUNCATE marker, no other marker, and plain
\* segment files
OneTruncateMarker(d) ==
    /\ Cardinality(Markers(d, truncateSuffix)) = 1
    /\ Markers(d, startSuffix) = {}
    /\ Markers(d, endSuffix) = {}

\* open returned r: the only segment file is the one of offset n, the log is
\* empty at n, and Write(n) returns nil and is read back
RecoveredEmptyAt(r, n) ==
    /\ r.err = ErrNone
    /\ Markers(r.w.disk, NoSuffix) = {segmentName(n)}
    /\ AllMarkers(r.w.disk) = {}
    /\ FirstIndex(r.w) = [index |-> n, err |-> ErrNone]
    /\ LastIndex(r.w) = [index |-> n - 1, err |-> ErrNone]
    /\ Write(r.w, n, PayloadOf(n, 1)).err = ErrNone
    /\ LastIndex(Write(r.w, n, PayloadOf(n, 1)).w) = [index |-> n, err |-> ErrNone]
    /\ ReadResult(Write(r.w, n, PayloadOf(n, 1)).w, n) = Found(PayloadOf(n, 1))

Manager(s, pc, n) ==
    /\ snm' = [snm EXCEPT ![s] = [@ EXCEPT !.pc = pc]]
    /\ nm' = n
    /\ UNCHANGED <<logVars, reading, nc>>

\* a step of the closer goroutine, of the caller or of the user
Notifications(n) ==
    /\ nm' = n
    /\ UNCHANGED <<logVars, reading, snm, nc>>

\* getNotifications, clientPool.GetClientRpc(leader) returns an error: the
\* error is returned whatever the state of the context
GetClientRpcFails(s) ==
    /\ snm[s].pc = "retry"
    /\ Manager(s, "failed", nm)

\* getNotifications, rpc.GetNotifications returns an error: with the context
\* cancelled the manager goes to send its close signal
GetNotificationsFails(s) ==
    /\ snm[s].pc = "retry"
    /\ Manager(s, IF nm.cancelled THEN "signal" ELSE "failed", nm)

\* getNotifications, the stream is open: backoff.Reset() and the first Recv
GetNotificationsOpens(s) ==
    /\ snm[s].pc = "retry"
    /\ ~nm.cancelled
    /\ Manager(s, "recv", nm)

\* getNotifications, notifications.Recv() returns an error or no batch
RecvFails(s) ==
    /\ snm[s].pc = "recv"
    /\ Manager(s, IF nm.cancelled THEN "signal" ELSE "failed", nm)

\* getNotifications, notifications.Recv() returns the first batch, which is
\* discarded: initialized = true, initWaitGroup.Done()
RecvFirst(s) ==
    /\ snm[s].pc = "recv"
    /\ ~snm[s].initialized
    /\ snm' = [snm EXCEPT ![s] = [@ EXCEPT !.initialized = TRUE]]
    /\ nm' = [nm EXCEPT !.initWaitGroup.count = @ - 1]
    /\ UNCHANGED <<logVars, reading, nc>>

\* getNotifications, notifications.Recv() returns a batch of count
\* notifications and the range loop starts (after an empty batch the
\* manager is at Recv again)
RecvBatch(s) ==
    /\ snm[s].pc = "recv"
    /\ snm[s].initialized
    /\ \E count \in 1..MaxNotifications :
          snm' = [snm EXCEPT ![s] = [@ EXCEPT !.pc = "send", !.pending = count]]
    /\ UNCHANGED <<logVars, reading, nm, nc>>

\* getNotifications, the select takes case snm.nm.multiplexCh <- n.  A send
\* on a closed channel panics.
MultiplexSend(s) ==
    /\ snm[s].pc = "send"
    /\ nm.chClosed \/ Len(nm.multiplexCh) < MultiplexSize
    /\ snm' = [snm EXCEPT ![s] =
           IF nm.chClosed THEN [@ EXCEPT !.pc = "exited"]
           ELSE [@ EXCEPT !.pc = IF snm[s].pending = 1 THEN "recv" ELSE "send",
                          !.pending = @ - 1]]
    /\ nm' = IF nm.chClosed THEN [nm EXCEPT !.panicked = TRUE]
             ELSE [nm EXCEPT !.multiplexCh = Append(@, s),
                             !.lateSend = @ \/ snm[s].signals > 0]
    /\ UNCHANGED <<logVars, reading, nc>>

\* getNotifications, the select takes case <-snm.ctx.Done()
MultiplexSendCancelled(s) ==
    /\ snm[s].pc = "send"
    /\ nm.cancelled
    /\ Manager(s, "signal", nm)

\* a closer goroutine that leaves its loop after the first close signal
closerReceivesOnce(n) == n.closerGot < 1

\* the closer goroutine is inside its loop, at <-nm.closeCh
closerReceives(n) == n.closerGot < MaxShards

\* snm.nm.closeCh <- nil meets a receive of the closer goroutine; then
\* getNotifications returns the error
CloseChSend(s) ==
    /\ snm[s].pc = "signal"
    /\ closerReceives(nm)
    /\ snm' = [snm EXCEPT ![s] = [@ EXCEPT !.pc = "failed", !.signals = @ + 1]]
    /\ nm' = [nm EXCEPT !.closerGot = @ + 1]
    /\ UNCHANGED <<logVars, reading, nc>>

\* backoff.RetryNotify after getNotifications returned an error: the backoff
\* of the cancelled nm.ctx yields Stop and RetryNotify returns; otherwise
\* the notify function runs and the timer is started
RetryNotify(s) ==
    /\ snm[s].pc = "failed"
    /\ IF nm.cancelled
       THEN Manager(s, "exited", nm)
       ELSE /\ snm' = [snm EXCEPT ![s] =
                   [@ EXCEPT !.pc = "backoff", !.initialized = TRUE]]
            /\ nm' = IF snm[s].initialized THEN nm
                     ELSE [nm EXCEPT !.initWaitGroup.failed = TRUE,
                                     !.cancelled = TRUE]
            /\ UNCHANGED <<logVars, reading, nc>>

\* backoff.RetryNotify, the timer fires: getNotifications is called again
BackoffTimer(s) ==
    /\ snm[s].pc = "backoff"
    /\ Manager(s, "retry", nm)

\* backoff.RetryNotify, the context is done during the wait: RetryNotify
\* returns and the goroutine ends
BackoffCancelled(s) ==
    /\ snm[s].pc = "backoff"
    /\ nm.cancelled
    /\ Manager(s, "exited", nm)

\* the closer goroutine: close(nm.multiplexCh) after len(shards) receives
CloserClose ==
    /\ ~closerReceives(nm)
    /\ ~nm.chClosed
    /\ Notifications([nm EXCEPT !.chClosed = TRUE])

\* the closer goroutine: nm.cancelMultiplexChanClosed()
CloserCancel ==
    /\ nm.chClosed
    /\ ~nm.multiplexChanClosed
    /\ Notifications([nm EXCEPT !.multiplexChanClosed = TRUE])

\* newNotifications, initWaitGroup.Wait returns nil: nm is returned
WaitDone ==
    /\ nm.new = "waiting"
    /\ nm.initWaitGroup.count = 0
    /\ ~nm.initWaitGroup.failed
    /\ Notifications([nm EXCEPT !.new = "returned"])

\* newNotifications, initWaitGroup.Wait returns an error (a manager failed,
\* or the request timeout passed): no notifications is returned
WaitFails ==
    /\ nm.new = "waiting"
    /\ Notifications([nm EXCEPT !.new = "failed"])

\* Close, nm.cancel(), then the wait for nm.ctxMultiplexChanClosed
CloseCancel ==
    /\ nm.new = "returned"
    /\ nm.close = "idle"
    /\ Notifications([nm EXCEPT !.cancelled = TRUE, !.close = "waiting"])

\* Close, from the end of the wait: n := <-nm.multiplexCh is evaluated once;
\* the loop has no post statement, so with n # nil it does not end
CloseDrain ==
    /\ nm.close = "waiting"
    /\ nm.multiplexChanClosed
    /\ Notifications(IF nm.multiplexCh = <<>>
                     THEN [nm EXCEPT !.close = "returned"]
                     ELSE [nm EXCEPT !.multiplexCh = Tail(@),
                                     !.close = "spinning"])

\* the user receives a notification from Ch()
UserReceive ==
    /\ nm.new = "returned"
    /\ nm.multiplexCh # <<>>
    /\ Notifications([nm EXCEPT !.multiplexCh = Tail(@)])

\* a step of the goroutine of shard s
ManagerStep(s) ==
    \/ GetClientRpcFails(s)
    \/ GetNotificationsFails(s)
    \/ GetNotificationsOpens(s)
    \/ RecvFails(s)
    \/ RecvFirst(s)
    \/ RecvBatch(s)
    \/ MultiplexSend(s)
    \/ MultiplexSendCancelled(s)
    \/ CloseChSend(s)
    \/ RetryNotify(s)
    \/ BackoffTimer(s)
    \/ BackoffCancelled(s)

NextNotify ==
    \/ \E s \in Shards : ManagerStep(s)
    \/ CloserClose
    \/ CloserCancel
    \/ WaitDone
    \/ WaitFails
    \/ CloseCancel
    \/ CloseDrain
    \/ UserReceive

SpecNotify == Init /\ [][NextNotify]_vars

\* the scheduler runs every goroutine that can take a step; a cancelled
\* stream fails, and a select whose ctx.Done() case is ready takes it after
\* finitely many rounds
FairNotify ==
    /\ \A s \in Shards :
          /\ WF_vars(ManagerStep(s))
          /\ SF_vars(nm.cancelled /\ RecvFails(s))
          /\ SF_vars(MultiplexSendCancelled(s))
    /\ WF_vars(CloserClose)
    /\ WF_vars(CloserCancel)
    /\ WF_vars(WaitDone)
    /\ WF_vars(CloseDrain)

SpecNotifyFair == Init /\ [][NextNotify]_vars /\ FairNotify


\* C38: notifications.Close terminates: once Close is called it eventually
\* returns, also when notifications are still buffered in multiplexCh and
\* when a manager waits in its retry backoff at the time of the
\* cancellation; and after Close returned multiplexCh is closed and empty
C38_CloseTerminates ==
    /\ (nm.close = "waiting") ~> (nm.close = "returned")
    /\ [](nm.close = "returned" => nm.chClosed /\ nm.multiplexCh = <<>>)


\* C39: shutdown ordering of the notifications: multiplexCh is closed only
\* after every shard manager has sent its close signal; a shard manager
\* sends at most one close signal and sends nothing on multiplexCh after
\* it; no goroutine sends on the closed multiplexCh
C39_ShutdownOrdering ==
    /\ nm.chClosed => \A s \in Shards : snm[s].signals >= 1
    /\ \A s \in Shards : snm[s].signals <= 1
    /\ ~nm.lateSend
    /\ ~nm.panicked

\* multiplexCh was closed after every manager signalled and ended, one of
\* them interrupted in the middle of a batch, with notifications buffered
C39_ClosedAfterAllSignals ==
    /\ nm.chClosed
    /\ \A s \in Shards : snm[s].signals = 1 /\ snm[s].pc = "exited"
    /\ nm.multiplexCh # <<>>
    /\ \E s \in Shards : snm[s].pending > 0


\* ----------------------------------------------------- node controller
\* healthCheckWithRetries runs healthCheck under backoff.RetryNotify; every
\* healthCheck call starts a ping goroutine that lives until the context of
\* the call is done

\* a step of the node controller, which leaves the other programs alone
Controller(n) ==
    /\ nc' = n
    /\ UNCHANGED <<logVars, reading, nm, snm>>

\* processHealthCheckResponse with a SERVING response and no error
processHealthCheckResponse(n) ==
    [n EXCEPT !.status = Running,
              !.recovered = @ \/ n.status = NotRunning,
              !.calls = 0,
              !.last = "serving"]

\* healthCheck returns an error: the deferred cancel() ends the context of
\* the call; a ping goroutine that holds a SERVING response outlives it
returned(n) ==
    [n EXCEPT !.hc = "failed",
              !.ctxDone = TRUE,
              !.ping = "none",
              !.stale = IF n.ping = "serving" THEN @ + 1 ELSE @]

\* healthCheck, rpc.GetHealthClient returns an error
GetHealthClientFails ==
    /\ nc.hc = "retry"
    /\ Controller([nc EXCEPT !.hc = "failed"])

\* healthCheck, from context.WithCancel(n.ctx) to the call of health.Watch:
\* the ping goroutine starts
HealthCheckStarts ==
    /\ nc.hc = "retry"
    /\ Controller([nc EXCEPT !.hc = "watch", !.ctxDone = nc.cancelled,
                             !.ping = "ticking"])

\* healthCheck, health.Watch returns an error
WatchFails ==
    /\ nc.hc = "watch"
    /\ nc.ping = "serving" => nc.stale < MaxStale
    /\ Controller(returned(nc))

\* healthCheck, health.Watch returns the stream: the first watch.Recv
WatchOpens ==
    /\ nc.hc = "watch"
    /\ ~nc.ctxDone
    /\ Controller([nc EXCEPT !.hc = "recv"])

\* healthCheck, watch.Recv returns an error or a status other than SERVING,
\* or the loop finds the context done: the error is returned
WatchRecvFails ==
    /\ nc.hc = "recv"
    /\ nc.ping = "serving" => nc.stale < MaxStale
    /\ Controller(returned(nc))

\* healthCheck, watch.Recv returns SERVING: processHealthCheckResponse and
\* backoff.Reset(), then the next Recv
WatchRecvServing ==
    /\ nc.hc = "recv"
    /\ ~nc.ctxDone
    /\ Controller(processHealthCheckResponse(nc))

\* the ping goroutine, health.Check returns SERVING
PingServing ==
    /\ nc.ping = "ticking"
    /\ ~nc.ctxDone
    /\ Controller([nc EXCEPT !.ping = "serving"])

\* the ping goroutine, processHealthCheckResponse of the SERVING response
PingProcess ==
    /\ nc.ping = "serving"
    /\ Controller([processHealthCheckResponse(nc) EXCEPT !.ping = "ticking"])

\* the ping goroutine, health.Check returns an error or a status other than
\* SERVING: cancel() of the context of the call, and the goroutine ends
PingFails ==
    /\ nc.ping = "ticking"
    /\ Controller([nc EXCEPT !.ping = "none", !.ctxDone = TRUE])

\* the ping goroutine, case <-ctx.Done()
PingExit ==
    /\ nc.ping = "ticking"
    /\ nc.ctxDone
    /\ Controller([nc EXCEPT !.ping = "none"])

\* the ping goroutine of an earlier healthCheck call processes the SERVING
\* response it holds, then finds its context done
StalePingProcess ==
    /\ nc.stale > 0
    /\ Controller([processHealthCheckResponse(nc) EXCEPT !.stale = @ - 1])

\* a notify function that does not look at the status
becameUnavailableAlways(n) == TRUE

\* healthCheckWithRetries, the test of the notify function under n.Lock()
becameUnavailable(n) == n.status = Running

\* healthCheckWithRetries, the notify function
notify(n) ==
    IF becameUnavailable(n)
    THEN [n EXCEPT !.status = NotRunning, !.calls = @ + 1,
                   !.last = "unavailable"]
    ELSE n

\* backoff.RetryNotify after healthCheck returned an error: the backoff of
\* the cancelled n.ctx yields Stop and RetryNotify returns; otherwise the
\* notify function runs and the timer is started
HealthRetryNotify ==
    /\ nc.hc = "failed"
    /\ Controller(IF nc.cancelled THEN [nc EXCEPT !.hc = "exited"]
                  ELSE [notify(nc) EXCEPT !.hc = "backoff"])

\* backoff.RetryNotify, the timer fires: healthCheck is called again
HealthBackoffTimer ==
    /\ nc.hc = "backoff"
    /\ Controller([nc EXCEPT !.hc = "retry"])

\* backoff.RetryNotify, n.ctx is done during the wait
HealthBackoffCancelled ==
    /\ nc.hc = "backoff"
    /\ nc.cancelled
    /\ Controller([nc EXCEPT !.hc = "exited"])

\* nodeController.Close: n.cancel() ends n.ctx and the contexts derived from it
NodeControllerClose ==
    /\ ~nc.cancelled
    /\ Controller([nc EXCEPT !.cancelled = TRUE, !.ctxDone = TRUE])

NextHealth ==
    \/ GetHealthClientFails
    \/ HealthCheckStarts
    \/ WatchFails
    \/ WatchOpens
    \/ WatchRecvFails
    \/ WatchRecvServing
    \/ PingServing
    \/ PingProcess
    \/ PingFails
    \/ PingExit
    \/ StalePingProcess
    \/ HealthRetryNotify
    \/ HealthBackoffTimer
    \/ HealthBackoffCancelled
    \/ NodeControllerClose

SpecHealth == Init /\ [][NextHealth]_vars

\* C40: the node controller calls NodeBecameUnavailable only in a step that
\* takes its status from Running to NotRunning, so at most once since the
\* last SERVING response was processed; and processing a SERVING response
\* leaves the status Running until the next call of NodeBecameUnavailable
C40_NodeAvailability ==
    /\ [][nc'.calls > nc.calls =>
             nc.status = Running /\ nc'.status = NotRunning]_vars
    /\ [](nc.calls <= 1)
    /\ [](nc.last = "serving" => nc.status = Running)
    /\ [](nc.last = "unavailable" => nc.status = NotRunning /\ nc.calls = 1)

\* the node was declared unavailable, came back with a SERVING response, and
\* was declared unavailable a second time
C40_UnavailableAgain ==
    /\ nc.recovered
    /\ nc.status = NotRunning
    /\ nc.calls = 1
    /\ nc.last = "unavailable"

=============================================================================
